---- MODULE Spec2Model ----
(***************************************************************************)
(* A model of the "his" image-processing headers: MatrixWrapper / Matrix   *)
(* (strided 2d views over a flat store), for_each, for_each_pair and       *)
(* filter.  Pointers are addresses into one flat store; an element passed  *)
(* to a functor is recorded by the address that was dereferenced.          *)
(***************************************************************************)
EXTENDS Integers, Sequences, FiniteSets, TLC

\* ------------------------------------------------------------------ bounds
MaxRows == 3
MaxCols == 3
MaxPad == 1

\* The side of the grids whose contents are followed, and the number of
\* operations on objects that are followed.
MaxSide == 2
MaxOps == 4

\* gaussian_kernel: the largest rows and cols asked for.
MaxGauss == 5

\* for_each and for_each_pair are overloaded for 1, 2, 3 and 4 matrices.
MaxMats == 4

VARIABLES
    pc,     \* position in the running function
    y,      \* the function's row loop variable
    x,      \* the function's column loop variable
    mats,   \* for_each / for_each_pair: the matrices passed, in argument order
    ptr,    \* for_each / for_each_pair: the row pointers, one per matrix each
    calls,  \* the functor invocations made so far: the addresses dereferenced
    input,  \* filter: the input image
    output, \* filter: the output image
    kernel, \* filter: the kernel
    events, \* filter: the accm and eval invocations made so far
    mem,    \* the store: the element at every address
    brk,    \* the address the next new T[] returns
    views,  \* the MatrixWrapper and Matrix objects constructed, in order of creation
    cropArgs,   \* the arguments of the crop call that made views[i + 1] from views[i]
    ndebug, \* whether the build defines NDEBUG (assert compiled out)
    writes, \* the element writes made so far: the view written through, the address
    blocks, \* the arrays new T[] returned: size, shared_ptr use count, delete[] calls
    dead,   \* the objects of views that have been destroyed
    op,     \* the last operation on an object of views, and how many there were
    func,   \* the functor, or the pair of functors, passed to the running function
    acc,    \* the variables the functors capture by reference
    args,   \* the scalar arguments and locals of the running function
    obj,    \* the SegmentTree, UFSet or BinaryIndexedTree object: its members
    hist    \* the calls made on obj so far, with what they returned

vars ==
    <<pc, y, x, mats, ptr, calls, input, output, kernel, events,
      mem, brk, views, cropArgs, ndebug, writes, blocks, dead, op, func, acc, args, obj, hist>>

\* What for_each and for_each_pair leave alone.
TraversalFrame ==
    UNCHANGED <<input, output, kernel, events, mem, brk, views, cropArgs, ndebug,
                writes, blocks, dead, op, func, acc, args, obj, hist>>

\* What a step of for_each or for_each_pair that invokes the functor leaves alone.
CallFrame ==
    UNCHANGED <<input, output, kernel, events, brk, views, cropArgs, ndebug,
                writes, blocks, dead, op, func, acc, args, obj, hist>>

\* What filter leaves alone.
FilterFrame ==
    UNCHANGED <<mats, ptr, calls, mem, brk, views, cropArgs, ndebug, writes,
                blocks, dead, op, func, acc, args, obj, hist>>

\* What a step of filter that invokes the functors leaves alone.
FilterCallFrame ==
    UNCHANGED <<mats, ptr, calls, brk, views, cropArgs, ndebug, writes,
                blocks, dead, op, func, args, obj, hist>>

\* What crop, clone and the element writes that follow them leave alone.
ViewFrame ==
    UNCHANGED <<y, x, mats, ptr, calls, input, output, kernel, events,
                blocks, dead, op, func, acc, args, obj, hist>>

\* What construction, copy, assignment and destruction of objects leave alone.
HandleFrame ==
    UNCHANGED <<y, x, mats, ptr, calls, input, output, kernel, events,
                cropArgs, ndebug, writes, func, acc, args, obj, hist>>

NoMatrix == [start |-> 0, rows |-> 0, cols |-> 0, step |-> 0]

\* The state of the variables a function does not use.
TraversalIdle == mats = <<>> /\ ptr = <<>> /\ calls = <<>>

FilterIdle ==
    input = NoMatrix /\ output = NoMatrix /\ kernel = NoMatrix /\ events = <<>>

NoOp == [name |-> "none", target |-> 0, source |-> 0, pos |-> <<0, 0>>, n |-> 0]

HandleIdle == blocks = <<>> /\ dead = {} /\ op = NoOp

NoAcc == [sum |-> 0, w |-> 0]

NoArgs == <<>>

NoObject == <<>>

\* No SegmentTree, UFSet or BinaryIndexedTree is in use.
ObjectIdle == obj = NoObject /\ hist = <<>>

\* A functor that changes nothing is passed, and nothing is captured.
FuncIdle == func = "none" /\ acc = NoAcc /\ args = NoArgs

ViewIdle ==
    /\ mem = <<>> /\ brk = 0 /\ views = <<>> /\ cropArgs = <<>>
    /\ ndebug = FALSE /\ writes = <<>>
    /\ HandleIdle

Max(a, b) == IF a >= b THEN a ELSE b

Min(a, b) == IF a <= b THEN a ELSE b

\* ------------------------------------------------------- MatrixWrapper
\* MatrixWrapper(void *start, size_t rows, size_t cols, size_t step)
MatrixWrapper(start, rows, cols, step) ==
    [start |-> start, rows |-> rows, cols |-> cols, step |-> step]

\* A plausible slip: the next row is taken to begin cols, not step, further.
RowPtrByCols(mat, yy) == mat.start + mat.cols * yy

\* T *operator [](int y)  { return m_start + m_step * y; }
RowPtr(mat, yy) == mat.start + mat.step * yy

\* T &operator ()(int y, int x)  { return (*this)[y][x]; }
Element(mat, yy, xx) == RowPtr(mat, yy) + xx

\* -------------------------------------------------------- Idx, IdxMap
\* Idx(size_t _x, size_t _y) : x(_x), y(_y)
Idx(xx, yy) == [x |-> xx, y |-> yy]

\* IdxMap(size_t rows, size_t cols): no start and no buffer
IdxMap(rows, cols) == [rows |-> rows, cols |-> cols]

IsIdxMap(mat) == ~("start" \in DOMAIN mat)

\* A plausible slip: the arguments of Idx(_x, _y) in the other order.
IdxMapRowSwapped(yy) == Idx(yy, 0)

\* Idx operator[](int y) { return Idx(0, y); }
IdxMapRow(yy) == Idx(0, yy)

\* Idx::Step step() const { return Idx::Step(0); }
IdxMapStep == [type |-> "Step", n |-> 0]

\* an integer argument of Idx's operators converts to size_t
SizeT(n) == [type |-> "size_t", n |-> n]

\* void operator+=(size_t _x) { x += _x; }   void operator+=(Step step) { ++y; }
\* Idx operator+(size_t _x) { return Idx(x+_x, y); }
IdxAdd(p, d) ==
    IF d.type = "Step" THEN Idx(p.x, p.y + 1) ELSE Idx(p.x + d.n, p.y)

\* ------------------------------------------------ the traversal inputs
\* Matrix k lives in its own buffer; buffers follow each other in the store.
BufSpan == (MaxRows + 1) * (MaxCols + MaxPad) + 1

BufBase(k) == (k - 1) * BufSpan + 1

NoPtr == [k \in 1..MaxMats |-> 0]

NoPtrs ==
    [up |-> NoPtr, down |-> NoPtr, left |-> NoPtr, right |-> NoPtr,
     center |-> NoPtr, p |-> NoPtr]

\* 1 to 4 matrices of one shape, each with its own step >= cols.
TraversalInputs ==
    UNION { { [k \in 1..n |-> MatrixWrapper(BufBase(k), R, C, C + pad[k])] :
                pad \in [1..n -> 0..MaxPad] } :
            <<n, R, C>> \in (1..MaxMats) \X (0..MaxRows) \X (0..MaxCols) }

NMats == Len(mats)

Rows == mats[1].rows

Cols == mats[1].cols

\* p += d, or p + d, for the pointer into every matrix: pointer arithmetic, or
\* Idx's operators for an IdxMap
Advance(ps, d) ==
    [k \in DOMAIN ps |->
        IF k > NMats THEN ps[k]
        ELSE IF IsIdxMap(mats[k]) THEN IdxAdd(ps[k], d[k])
        ELSE ps[k] + d[k]]

\* the literal 1 for every matrix
Ones ==
    [k \in 1..MaxMats |-> IF k <= NMats /\ IsIdxMap(mats[k]) THEN SizeT(1) ELSE 1]

\* matK.step() for every matrix
Steps ==
    [k \in 1..MaxMats |->
        IF k > NMats THEN 0
        ELSE IF IsIdxMap(mats[k]) THEN IdxMapStep
        ELSE mats[k].step]

\* matK[yy] for every matrix
RowPtrs(yy) ==
    [k \in 1..MaxMats |->
        IF k > NMats THEN 0
        ELSE IF IsIdxMap(mats[k]) THEN IdxMapRow(yy)
        ELSE RowPtr(mats[k], yy)]

\* A plausible slip: only the assert on mat2 is written.
SameShapeFirstTwo(ms) ==
    \A k \in 2..Min(2, Len(ms)) : ms[1].rows = ms[k].rows /\ ms[1].cols = ms[k].cols

\* assert(mat1.rows() == matK.rows() && mat1.cols() == matK.cols()) for K = 2..4
SameShape(ms) ==
    \A k \in 2..Len(ms) : ms[1].rows = ms[k].rows /\ ms[1].cols = ms[k].cols

\* ------------------------------------------------------------ functors
\* A plausible slip: the second update with the sign of the first.
DifferenceOneWay(store, c) ==
    LET b1 == store[c[1][1]]
        b2 == store[c[1][2]]
        s1 == [store EXCEPT ![c[2][1]] = @ + (b1 - b2)]
    IN  [s1 EXCEPT ![c[2][2]] = @ + (b1 - b2)]

\* [](uchar b1, uchar b2, int &l1, int &l2) { l1 += (b1 - b2); l2 += (b2 - b1); }
\* b1, b2: the call's elements of the first matrix; l1, l2: of the second
Difference(store, c) ==
    LET b1 == store[c[1][1]]
        b2 == store[c[1][2]]
        s1 == [store EXCEPT ![c[2][1]] = @ + (b1 - b2)]
    IN  [s1 EXCEPT ![c[2][2]] = @ + (b2 - b1)]

\* func(...) for the elements of call c: the store afterwards
Func(store, c) ==
    CASE func = "difference" -> Difference(store, c)
      [] OTHER -> store

\* the invocations cs one after the other: the store afterwards
RECURSIVE Invoke(_, _)
Invoke(store, cs) ==
    IF cs = <<>> THEN store ELSE Invoke(Func(store, Head(cs)), Tail(cs))

\* ------------------------------------------------------- for_each_pair
\* func(*a1, *b1, *a2, *b2, ...): two elements of every matrix
PairCall(a, b) == [k \in 1..NMats |-> <<a[k], b[k]>>]

\* A plausible slip: the horizontal pair of the inner loop is forgotten.
RestCallsVerticalOnly(p) == << PairCall(p.up, p.center) >>

\* A plausible slip: the two calls of the inner loop in the other order.
RestCallsSwapped(p) == << PairCall(p.left, p.center), PairCall(p.up, p.center) >>

\* func(*up, *center); func(*left, *center);
RestCalls(p) == << PairCall(p.up, p.center), PairCall(p.left, p.center) >>

\* entry: the shape asserts hold or are compiled out, then  up = mat[0];
\* down = mat[1];  and  y = 1
PairBegin ==
    /\ pc = "pair_begin"
    /\ SameShape(mats) \/ ndebug
    /\ ptr' = [ptr EXCEPT !.up = RowPtrs(0), !.down = RowPtrs(1)]
    /\ y' = 1
    /\ pc' = "first_column"
    /\ UNCHANGED <<x, mats, calls>>
    /\ TraversalFrame

\* first column, one iteration
FirstColumn ==
    /\ pc = "first_column"
    /\ y < Rows
    /\ calls' = Append(calls, PairCall(ptr.up, ptr.down))
    /\ mem' = Invoke(mem, << PairCall(ptr.up, ptr.down) >>)
    /\ ptr' = [ptr EXCEPT !.up = Advance(ptr.up, Steps),
                          !.down = Advance(ptr.down, Steps)]
    /\ y' = y + 1
    /\ UNCHANGED <<pc, x, mats>>
    /\ CallFrame

\* first column left; left = mat[0]; right = mat[0] + 1;  and  x = 1
FirstColumnEnd ==
    /\ pc = "first_column"
    /\ ~(y < Rows)
    /\ ptr' = [ptr EXCEPT !.left = RowPtrs(0),
                          !.right = Advance(RowPtrs(0), Ones)]
    /\ x' = 1
    /\ pc' = "first_row"
    /\ UNCHANGED <<y, mats, calls>>
    /\ TraversalFrame

\* first row, one iteration
FirstRow ==
    /\ pc = "first_row"
    /\ x < Cols
    /\ calls' = Append(calls, PairCall(ptr.left, ptr.right))
    /\ mem' = Invoke(mem, << PairCall(ptr.left, ptr.right) >>)
    /\ ptr' = [ptr EXCEPT !.left = Advance(ptr.left, Ones),
                          !.right = Advance(ptr.right, Ones)]
    /\ x' = x + 1
    /\ UNCHANGED <<pc, y, mats>>
    /\ CallFrame

\* first row left; the rest begins with  y = 1
FirstRowEnd ==
    /\ pc = "first_row"
    /\ ~(x < Cols)
    /\ y' = 1
    /\ pc' = "rest"
    /\ UNCHANGED <<x, mats, ptr, calls>>
    /\ TraversalFrame

\* the rest, outer loop:  up = mat[y-1] + 1; left = mat[y]; center = mat[y] + 1;
RestRow ==
    /\ pc = "rest"
    /\ y < Rows
    /\ ptr' = [ptr EXCEPT !.up = Advance(RowPtrs(y - 1), Ones),
                          !.left = RowPtrs(y),
                          !.center = Advance(RowPtrs(y), Ones)]
    /\ x' = 1
    /\ pc' = "rest_inner"
    /\ UNCHANGED <<y, mats, calls>>
    /\ TraversalFrame

\* the rest, inner loop, one iteration: two calls
RestInner ==
    /\ pc = "rest_inner"
    /\ x < Cols
    /\ calls' = calls \o RestCalls(ptr)
    /\ mem' = Invoke(mem, RestCalls(ptr))
    /\ ptr' = [ptr EXCEPT !.up = Advance(ptr.up, Ones),
                          !.left = Advance(ptr.left, Ones),
                          !.center = Advance(ptr.center, Ones)]
    /\ x' = x + 1
    /\ UNCHANGED <<pc, y, mats>>
    /\ CallFrame

\* the rest, inner loop left: ++y
RestRowEnd ==
    /\ pc = "rest_inner"
    /\ ~(x < Cols)
    /\ y' = y + 1
    /\ pc' = "rest"
    /\ UNCHANGED <<x, mats, ptr, calls>>
    /\ TraversalFrame

\* the rest left: for_each_pair returns
PairEnd ==
    /\ pc = "rest"
    /\ ~(y < Rows)
    /\ pc' = "pair_done"
    /\ UNCHANGED <<y, x, mats, ptr, calls>>
    /\ TraversalFrame

InitPair ==
    /\ mats \in TraversalInputs
    /\ pc = "pair_begin"
    /\ y = 0
    /\ x = 0
    /\ ptr = NoPtrs
    /\ calls = <<>>
    /\ FilterIdle
    /\ ViewIdle
    /\ FuncIdle
    /\ ObjectIdle

NextPair ==
    \/ PairBegin
    \/ FirstColumn
    \/ FirstColumnEnd
    \/ FirstRow
    \/ FirstRowEnd
    \/ RestRow
    \/ RestInner
    \/ RestRowEnd
    \/ PairEnd

SpecPair == InitPair /\ [][NextPair]_vars

\* ------------------------------------------------------------ for_each
\* func(*p1, *p2, ...): one element of every matrix
EachCall(p) == [k \in 1..NMats |-> p[k]]

\* entry: the shape asserts hold or are compiled out, then  y = 0
EachBegin ==
    /\ pc = "each_begin"
    /\ SameShape(mats) \/ ndebug
    /\ y' = 0
    /\ pc' = "each_rows"
    /\ UNCHANGED <<x, mats, ptr, calls>>
    /\ TraversalFrame

\* outer loop:  p = mat[y];  and  x = 0
EachRow ==
    /\ pc = "each_rows"
    /\ y < Rows
    /\ ptr' = [ptr EXCEPT !.p = RowPtrs(y)]
    /\ x' = 0
    /\ pc' = "each_cols"
    /\ UNCHANGED <<y, mats, calls>>
    /\ TraversalFrame

\* inner loop, one iteration:  func(*p); p += 1;
EachCol ==
    /\ pc = "each_cols"
    /\ x < Cols
    /\ calls' = Append(calls, EachCall(ptr.p))
    /\ mem' = Invoke(mem, << EachCall(ptr.p) >>)
    /\ ptr' = [ptr EXCEPT !.p = Advance(ptr.p, Ones)]
    /\ x' = x + 1
    /\ UNCHANGED <<pc, y, mats>>
    /\ CallFrame

\* inner loop left: ++y
EachRowEnd ==
    /\ pc = "each_cols"
    /\ ~(x < Cols)
    /\ y' = y + 1
    /\ pc' = "each_rows"
    /\ UNCHANGED <<x, mats, ptr, calls>>
    /\ TraversalFrame

\* outer loop left: for_each returns
EachEnd ==
    /\ pc = "each_rows"
    /\ ~(y < Rows)
    /\ pc' = "each_done"
    /\ UNCHANGED <<y, x, mats, ptr, calls>>
    /\ TraversalFrame

InitEach ==
    /\ mats \in TraversalInputs
    /\ pc = "each_begin"
    /\ y = 0
    /\ x = 0
    /\ ptr = NoPtrs
    /\ calls = <<>>
    /\ FilterIdle
    /\ ViewIdle
    /\ FuncIdle
    /\ ObjectIdle

NextEach ==
    \/ EachBegin
    \/ EachRow
    \/ EachCol
    \/ EachRowEnd
    \/ EachEnd

SpecEach == InitEach /\ [][NextEach]_vars

\* --------------------------------------- the laplacian by for_each_pair
\* uchar pixels
Pixels == {0, 1, 255}

\* The addresses mat(yy, xx) over the rows x cols window of mat.
Window(mat) ==
    { RowPtr(mat, yy) + xx :
        <<yy, xx>> \in (0..(mat.rows - 1)) \X (0..(mat.cols - 1)) }

\* The image and the laplacian, of one shape, with different steps.
LaplacianInputs ==
    { << MatrixWrapper(BufBase(1), t[1], t[2], t[2] + t[3]),
         MatrixWrapper(BufBase(2), t[1], t[2], t[2] + (MaxPad - t[3])) >> :
        t \in (0..MaxSide) \X (0..MaxSide) \X (0..MaxPad) }

\* The stores: any pixels in the image, and cv::Mat1i laplacian(size, 0).
LaplacianStores(image) ==
    { [a \in 1..(2 * BufSpan) |-> IF a \in Window(image) THEN f[a] ELSE 0] :
        f \in [Window(image) -> Pixels] }

InitLaplacian ==
    /\ mats \in LaplacianInputs
    /\ mem \in LaplacianStores(mats[1])
    /\ func = "difference"
    /\ acc = NoAcc
    /\ args = NoArgs
    /\ pc = "pair_begin"
    /\ y = 0
    /\ x = 0
    /\ ptr = NoPtrs
    /\ calls = <<>>
    /\ FilterIdle
    /\ brk = 0 /\ views = <<>> /\ cropArgs = <<>> /\ ndebug = FALSE /\ writes = <<>>
    /\ HandleIdle
    /\ ObjectIdle

SpecLaplacian == InitLaplacian /\ [][NextPair]_vars

\* Larger images, with few contents: one white pixel on black, or every pixel
\* another grey.
MaxWide == 3

WideInputs ==
    { << MatrixWrapper(1, t[1], t[2], t[2] + t[3]),
         MatrixWrapper(1 + t[1] * (t[2] + t[3]), t[1], t[2],
                       t[2] + (MaxPad - t[3])) >> :
        t \in (1..MaxWide) \X (1..MaxWide) \X (0..MaxPad) }

WideStores(image, laplacian) ==
    { [a \in 1..(laplacian.start + laplacian.rows * laplacian.step) |->
        IF a \in Window(image) THEN f[a] ELSE 0] :
        f \in { [a \in Window(image) |-> IF a = b THEN 255 ELSE 0] :
                    b \in Window(image) }
              \cup { [a \in Window(image) |-> (a * a) % 256] } }

InitLaplacianWide ==
    /\ mats \in WideInputs
    /\ mem \in WideStores(mats[1], mats[2])
    /\ func = "difference"
    /\ acc = NoAcc
    /\ args = NoArgs
    /\ pc = "pair_begin"
    /\ y = 0
    /\ x = 0
    /\ ptr = NoPtrs
    /\ calls = <<>>
    /\ FilterIdle
    /\ brk = 0 /\ views = <<>> /\ cropArgs = <<>> /\ ndebug = FALSE /\ writes = <<>>
    /\ HandleIdle
    /\ ObjectIdle

SpecLaplacianWide == InitLaplacianWide /\ [][NextPair]_vars

\* ------------------------------------------------- calls with an IdxMap
\* 1 to 4 grids of one shape: grid j an IdxMap, the others matrices with a
\* common padding.
IdxInputs ==
    UNION { { [k \in 1..t[1] |->
                IF k = t[2] THEN IdxMap(t[3], t[4])
                ELSE MatrixWrapper(BufBase(k), t[3], t[4], t[4] + pad)] :
              pad \in 0..MaxPad } :
            t \in { u \in (1..MaxMats) \X (1..MaxMats) \X (0..MaxRows) \X (0..MaxCols) :
                      u[2] <= u[1] } }

InitIdx ==
    /\ mats \in IdxInputs
    /\ pc \in {"pair_begin", "each_begin"}
    /\ y = 0
    /\ x = 0
    /\ ptr = NoPtrs
    /\ calls = <<>>
    /\ FilterIdle
    /\ ViewIdle
    /\ FuncIdle
    /\ ObjectIdle

NextIdx ==
    \/ PairBegin
    \/ FirstColumn
    \/ FirstColumnEnd
    \/ FirstRow
    \/ FirstRowEnd
    \/ RestRow
    \/ RestInner
    \/ RestRowEnd
    \/ PairEnd
    \/ EachBegin
    \/ EachRow
    \/ EachCol
    \/ EachRowEnd
    \/ EachEnd

SpecIdx == InitIdx /\ [][NextIdx]_vars

\* ----------------------------------------- calls with grids that differ
\* entry of for_each_pair: a shape assert fails and the program aborts
PairAbort ==
    /\ pc = "pair_begin"
    /\ ~SameShape(mats)
    /\ ~ndebug
    /\ pc' = "pair_abort"
    /\ UNCHANGED <<y, x, mats, ptr, calls>>
    /\ TraversalFrame

\* entry of for_each: a shape assert fails and the program aborts
EachAbort ==
    /\ pc = "each_begin"
    /\ ~SameShape(mats)
    /\ ~ndebug
    /\ pc' = "each_abort"
    /\ UNCHANGED <<y, x, mats, ptr, calls>>
    /\ TraversalFrame

\* The shapes one row or one column away from R x C.
NearShapes(R, C) ==
    { q \in (0..MaxRows) \X (0..MaxCols) :
        \/ q[2] = C /\ (q[1] = R + 1 \/ q[1] = R - 1)
        \/ q[1] = R /\ (q[2] = C + 1 \/ q[2] = C - 1) }

\* 2 to 4 matrices of which one, matrix j, has another shape than the rest.
MismatchInputs ==
    UNION { { [k \in 1..t[1] |->
                IF k = t[2] THEN MatrixWrapper(BufBase(k), q[1], q[2], q[2])
                            ELSE MatrixWrapper(BufBase(k), t[3], t[4], t[4])] :
              q \in NearShapes(t[3], t[4]) } :
            t \in { u \in (2..MaxMats) \X (1..MaxMats) \X (0..MaxRows) \X (0..MaxCols) :
                      u[2] <= u[1] } }

InitMismatch ==
    /\ mats \in MismatchInputs
    /\ pc \in {"pair_begin", "each_begin"}
    /\ ndebug \in BOOLEAN
    /\ y = 0
    /\ x = 0
    /\ ptr = NoPtrs
    /\ calls = <<>>
    /\ FilterIdle
    /\ mem = <<>> /\ brk = 0 /\ views = <<>> /\ cropArgs = <<>> /\ writes = <<>>
    /\ HandleIdle
    /\ FuncIdle
    /\ ObjectIdle

NextMismatch ==
    \/ PairBegin
    \/ PairAbort
    \/ FirstColumn
    \/ FirstColumnEnd
    \/ FirstRow
    \/ FirstRowEnd
    \/ RestRow
    \/ RestInner
    \/ RestRowEnd
    \/ PairEnd
    \/ EachBegin
    \/ EachAbort
    \/ EachRow
    \/ EachCol
    \/ EachRowEnd
    \/ EachEnd

SpecMismatch == InitMismatch /\ [][NextMismatch]_vars

\* -------------------------------------------------- for_each as a whole
\* The calls of one row: func(*p); p += 1; for x = 0 .. cols-1
RECURSIVE RowCalls(_, _)
RowCalls(p, n) ==
    IF n <= 0 THEN <<>>
    ELSE <<p>> \o RowCalls([k \in DOMAIN p |-> p[k] + 1], n - 1)

\* The rows from yy on: p = mat[y]; then the calls of the row
RECURSIVE ForEachRows(_, _)
ForEachRows(ms, yy) ==
    IF ~(yy < ms[1].rows) THEN <<>>
    ELSE RowCalls([k \in 1..Len(ms) |-> RowPtr(ms[k], yy)], ms[1].cols)
         \o ForEachRows(ms, yy + 1)

\* for_each(mat1, ..., func): the functor's invocations, in order
ForEach(ms) == ForEachRows(ms, 0)

\* ---------------------------------------------------------------- crop
\* size_t arithmetic: an int converted to size_t wraps (a small stand-in for 2^64)
SizeTRange == 2 ^ 20

ToSizeT(i) == i % SizeTRange

\* assert(top + rows <= m_rows && left + cols <= m_cols);
CropAssert(mat, top, left, rows, cols) ==
    /\ ToSizeT(top + rows) <= mat.rows
    /\ ToSizeT(left + cols) <= mat.cols

\* A plausible slip: the row offset is scaled by cols, not by step.
WrapperCropByCols(mat, top, left, rows, cols) ==
    MatrixWrapper(mat.start + mat.cols * top + left, rows, cols, mat.step)

\* MatrixWrapper::crop: sub(m_start, rows, cols, step()); sub.m_start = ...
WrapperCrop(mat, top, left, rows, cols) ==
    MatrixWrapper(mat.start + mat.step * top + left, rows, cols, mat.step)

\* -------------------------------------------------------------- filter
MaxKernel == 3
MaxSlack == 1

\* the three asserts at filter's entry
FilterPre ==
    /\ kernel.rows % 2 = 1 /\ kernel.cols % 2 = 1
    /\ kernel.rows * 2 + 1 < input.rows /\ kernel.cols * 2 + 1 < input.cols
    /\ input.rows = output.rows /\ input.cols = output.cols

\* kernel.rows()/2 and kernel.cols()/2
Kr == kernel.rows \div 2

Kc == kernel.cols \div 2

\* accm(*p1, *p2) for every call of the inner for_each, while (y, x) is processed
AccmEvents(cs, yy, xx) ==
    [i \in 1..Len(cs) |-> [f |-> "accm", in |-> cs[i][1], k |-> cs[i][2],
                           pos |-> <<yy, xx>>]]

\* eval(output(y, x))
EvalEvent(yy, xx) ==
    [f |-> "eval", out |-> RowPtr(output, yy) + xx, pos |-> <<yy, xx>>]

\* The arguments of the two crop calls of parse_with_check(x, y):
\* input.crop(y0, x0, y1 - y0, x1 - x0) and
\* kernel.crop(y0 - y + kernel.rows()/2, x0 - x + kernel.cols()/2, y1 - y0, x1 - x0)
CheckedCrops(xx, yy) ==
    LET x0 == Max(xx - Kc, 0)
        x1 == Min(xx + Kc + 1, input.cols)
        y0 == Max(yy - Kr, 0)
        y1 == Min(yy + Kr + 1, input.rows)
    IN  << [of |-> "input", top |-> y0, left |-> x0,
            rows |-> y1 - y0, cols |-> x1 - x0],
           [of |-> "kernel", top |-> y0 - yy + Kr, left |-> x0 - xx + Kc,
            rows |-> y1 - y0, cols |-> x1 - x0] >>

\* input.crop(y - kernel.rows()/2, x - kernel.cols()/2, kernel.rows(), kernel.cols())
CentralCrops(xx, yy) ==
    << [of |-> "input", top |-> yy - Kr, left |-> xx - Kc,
        rows |-> kernel.rows, cols |-> kernel.cols] >>

\* the crop calls made while (y, x) is processed
CropEvents(cs, yy, xx) ==
    [i \in 1..Len(cs) |-> [f |-> "crop", of |-> cs[i].of, top |-> cs[i].top,
                           left |-> cs[i].left, rows |-> cs[i].rows,
                           cols |-> cs[i].cols, pos |-> <<yy, xx>>]]

\* parse_with_check(x, y): the kernel is cropped at the boundary
ParseWithCheck(xx, yy) ==
    LET c == CheckedCrops(xx, yy)
    IN  CropEvents(c, yy, xx)
        \o AccmEvents(ForEach(<< WrapperCrop(input, c[1].top, c[1].left,
                                             c[1].rows, c[1].cols),
                                 WrapperCrop(kernel, c[2].top, c[2].left,
                                             c[2].rows, c[2].cols) >>), yy, xx)
        \o << EvalEvent(yy, xx) >>

\* central part, no boundary checks
ParseCentral(xx, yy) ==
    LET c == CentralCrops(xx, yy)
    IN  CropEvents(c, yy, xx)
        \o AccmEvents(ForEach(<< WrapperCrop(input, c[1].top, c[1].left,
                                             c[1].rows, c[1].cols),
                                 kernel >>), yy, xx)
        \o << EvalEvent(yy, xx) >>

\* [&](const uchar rgb[3], float w) { sum_rgb[i] += rgb[i] * w; sum_w += w; }
AverageAccm(store, a, e) ==
    [store |-> store,
     acc |-> [sum |-> a.sum + store[e.in] * store[e.k], w |-> a.w + store[e.k]]]

\* [&](uchar rgb[3]) { rgb[i] = uchar(sum_rgb[i] / sum_w + 0.5f); sum_rgb[i] = 0;
\* sum_w = 0; }
AverageEval(store, a, e) ==
    [store |-> [store EXCEPT ![e.out] = (2 * a.sum + a.w) \div (2 * a.w)],
     acc |-> [sum |-> 0, w |-> 0]]

\* accumulate adding value * weight to a captured sum
SumAccm(store, a, e) ==
    [store |-> store, acc |-> [a EXCEPT !.sum = @ + store[e.in] * store[e.k]]]

\* evaluate writing the accumulated value and keeping it
SumEvalKeeping(store, a, e) ==
    [store |-> [store EXCEPT ![e.out] = a.sum], acc |-> a]

\* evaluate writing the accumulated value and resetting it
SumEval(store, a, e) ==
    [store |-> [store EXCEPT ![e.out] = a.sum], acc |-> [a EXCEPT !.sum = 0]]

\* accm(*p1, *p2) or eval(output(y, x)) for event e: the store and the captured
\* variables afterwards
FilterFunc(st, e) ==
    CASE func = "average" /\ e.f = "accm" -> AverageAccm(st.store, st.acc, e)
      [] func = "average" /\ e.f = "eval" -> AverageEval(st.store, st.acc, e)
      [] func = "weighted_sum" /\ e.f = "accm" -> SumAccm(st.store, st.acc, e)
      [] func = "weighted_sum" /\ e.f = "eval" -> SumEval(st.store, st.acc, e)
      [] OTHER -> st

\* the invocations es one after the other
RECURSIVE RunEvents(_, _)
RunEvents(st, es) ==
    IF es = <<>> THEN st ELSE RunEvents(FilterFunc(st, Head(es)), Tail(es))

\* i < n for an int i and a size_t n: i is converted to size_t
Below(i, n) == ToSizeT(i) < n

\* The loop bounds of the five parts: y in y0 .. y1-1 and x in x0 .. x1-1.
TopBand == [y0 |-> 0, y1 |-> Kr, x0 |-> 0, x1 |-> input.cols]

BottomBand ==
    [y0 |-> input.rows - Kr, y1 |-> input.rows, x0 |-> 0, x1 |-> input.cols]

\* The left band as wide as the kernel's column radius.
LeftBandByCols == [y0 |-> Kr, y1 |-> input.rows - Kr, x0 |-> 0, x1 |-> Kc]

\* for (int x = 0; x < kernel.rows()/2; ++x)
LeftBand == [y0 |-> Kr, y1 |-> input.rows - Kr, x0 |-> 0, x1 |-> Kr]

\* The right band as wide as the kernel's column radius.
RightBandByCols ==
    [y0 |-> Kr, y1 |-> input.rows - Kr, x0 |-> input.cols - Kc, x1 |-> input.cols]

\* for (int x = input.cols() - kernel.rows()/2; x < input.cols(); ++x)
RightBand ==
    [y0 |-> Kr, y1 |-> input.rows - Kr, x0 |-> input.cols - Kr, x1 |-> input.cols]

CentralPart ==
    [y0 |-> Kr, y1 |-> input.rows - Kr, x0 |-> Kc, x1 |-> input.cols - Kc]

Part(name) ==
    CASE name = "top" -> TopBand
      [] name = "bottom" -> BottomBand
      [] name = "left" -> LeftBand
      [] name = "right" -> RightBand
      [] name = "central" -> CentralPart

Parts == {"top", "bottom", "left", "right", "central"}

\* The part that follows in the function's text.
Following(name) ==
    CASE name = "top" -> "bottom"
      [] name = "bottom" -> "left"
      [] name = "left" -> "right"
      [] name = "right" -> "central"
      [] name = "central" -> "filter_done"

\* entry: the asserts hold, the top band begins
FilterBegin ==
    /\ pc = "filter_begin"
    /\ FilterPre
    /\ pc' = "top"
    /\ y' = TopBand.y0
    /\ x' = TopBand.x0
    /\ UNCHANGED <<input, output, kernel, events>>
    /\ FilterFrame

\* entry: an assert fails and the program aborts (a build without asserts runs
\* on outside the function's preconditions and is not followed here)
FilterAbort ==
    /\ pc = "filter_begin"
    /\ ~FilterPre
    /\ pc' = "filter_abort"
    /\ UNCHANGED <<y, x, input, output, kernel, events>>
    /\ FilterFrame

\* one position of the top band: parse_with_check(x, y); ++x
TopStep ==
    /\ pc = "top"
    /\ Below(y, TopBand.y1)
    /\ Below(x, TopBand.x1)
    /\ events' = events \o ParseWithCheck(x, y)
    /\ mem' = RunEvents([store |-> mem, acc |-> acc], ParseWithCheck(x, y)).store
    /\ acc' = RunEvents([store |-> mem, acc |-> acc], ParseWithCheck(x, y)).acc
    /\ x' = x + 1
    /\ UNCHANGED <<pc, y, input, output, kernel>>
    /\ FilterCallFrame

\* one position of the bottom band: parse_with_check(x, y); ++x
BottomStep ==
    /\ pc = "bottom"
    /\ Below(y, BottomBand.y1)
    /\ Below(x, BottomBand.x1)
    /\ events' = events \o ParseWithCheck(x, y)
    /\ mem' = RunEvents([store |-> mem, acc |-> acc], ParseWithCheck(x, y)).store
    /\ acc' = RunEvents([store |-> mem, acc |-> acc], ParseWithCheck(x, y)).acc
    /\ x' = x + 1
    /\ UNCHANGED <<pc, y, input, output, kernel>>
    /\ FilterCallFrame

\* one position of the left band: parse_with_check(x, y); ++x
LeftStep ==
    /\ pc = "left"
    /\ Below(y, LeftBand.y1)
    /\ Below(x, LeftBand.x1)
    /\ events' = events \o ParseWithCheck(x, y)
    /\ mem' = RunEvents([store |-> mem, acc |-> acc], ParseWithCheck(x, y)).store
    /\ acc' = RunEvents([store |-> mem, acc |-> acc], ParseWithCheck(x, y)).acc
    /\ x' = x + 1
    /\ UNCHANGED <<pc, y, input, output, kernel>>
    /\ FilterCallFrame

\* one position of the right band: parse_with_check(x, y); ++x
RightStep ==
    /\ pc = "right"
    /\ Below(y, RightBand.y1)
    /\ Below(x, RightBand.x1)
    /\ events' = events \o ParseWithCheck(x, y)
    /\ mem' = RunEvents([store |-> mem, acc |-> acc], ParseWithCheck(x, y)).store
    /\ acc' = RunEvents([store |-> mem, acc |-> acc], ParseWithCheck(x, y)).acc
    /\ x' = x + 1
    /\ UNCHANGED <<pc, y, input, output, kernel>>
    /\ FilterCallFrame

\* one position of the central part; ++x
CentralStep ==
    /\ pc = "central"
    /\ Below(y, CentralPart.y1)
    /\ Below(x, CentralPart.x1)
    /\ events' = events \o ParseCentral(x, y)
    /\ mem' = RunEvents([store |-> mem, acc |-> acc], ParseCentral(x, y)).store
    /\ acc' = RunEvents([store |-> mem, acc |-> acc], ParseCentral(x, y)).acc
    /\ x' = x + 1
    /\ UNCHANGED <<pc, y, input, output, kernel>>
    /\ FilterCallFrame

\* a row of a part is done: ++y, and x starts again
FilterRowEnd ==
    /\ pc \in Parts
    /\ Below(y, Part(pc).y1)
    /\ ~Below(x, Part(pc).x1)
    /\ y' = y + 1
    /\ x' = Part(pc).x0
    /\ UNCHANGED <<pc, input, output, kernel, events>>
    /\ FilterFrame

\* a part is done: the next part begins, or filter returns
FilterPartEnd ==
    /\ pc \in Parts
    /\ ~Below(y, Part(pc).y1)
    /\ pc' = Following(pc)
    /\ IF Following(pc) \in Parts
       THEN y' = Part(Following(pc)).y0 /\ x' = Part(Following(pc)).x0
       ELSE UNCHANGED <<y, x>>
    /\ UNCHANGED <<input, output, kernel, events>>
    /\ FilterFrame

\* The three matrices of a call, each in its own buffer, with their own steps.
FilterInput(krows, kcols, R, C, pad) ==
    [in |-> MatrixWrapper(1, R, C, C + pad),
     out |-> MatrixWrapper(1 + R * (C + pad), R, C, C + (MaxPad - pad)),
     ker |-> MatrixWrapper(1 + R * (2 * C + MaxPad), krows, kcols, kcols + pad)]

\* Kernels of 1 .. MaxKernel rows and columns; images from one below the size
\* the asserts ask for to MaxSlack above it.
FilterInputs ==
    { FilterInput(t[1], t[2], 2 * t[1] + t[3], 2 * t[2] + t[4], t[5]) :
        t \in (1..MaxKernel) \X (1..MaxKernel) \X (1..(2 + MaxSlack))
              \X (1..(2 + MaxSlack)) \X (0..MaxPad) }

InitFilter ==
    /\ \E i \in FilterInputs :
        input = i.in /\ output = i.out /\ kernel = i.ker
    /\ events = <<>>
    /\ pc = "filter_begin"
    /\ y = 0
    /\ x = 0
    /\ TraversalIdle
    /\ ViewIdle
    /\ FuncIdle
    /\ ObjectIdle

NextFilter ==
    \/ FilterBegin
    \/ FilterAbort
    \/ TopStep
    \/ BottomStep
    \/ LeftStep
    \/ RightStep
    \/ CentralStep
    \/ FilterRowEnd
    \/ FilterPartEnd

SpecFilter == InitFilter /\ [][NextFilter]_vars

\* Kernels of one column and 1 .. MaxTall rows, on images four columns wide.
MaxTall == 11

TallInputs ==
    { FilterInput(t[1], 1, 2 * t[1] + t[2], 2 + t[3], t[4]) :
        t \in (1..MaxTall) \X (1..2) \X (1..2) \X (0..MaxPad) }

InitFilterTall ==
    /\ \E i \in TallInputs :
        input = i.in /\ output = i.out /\ kernel = i.ker
    /\ events = <<>>
    /\ pc = "filter_begin"
    /\ y = 0
    /\ x = 0
    /\ TraversalIdle
    /\ ViewIdle
    /\ FuncIdle
    /\ ObjectIdle

SpecFilterTall == InitFilterTall /\ [][NextFilter]_vars

\* ------------------------------------------------ filter with functors
\* The kernels: all weights 1, or every weight another positive number.
Weights(ker) ==
    { [a \in Window(ker) |-> 1],
      [a \in Window(ker) |-> 1 + (a - ker.start)] }

\* The images: every pixel the same, or every pixel another number.
Images(img) ==
    { [a \in Window(img) |-> c] : c \in Pixels } \cup { [a \in Window(img) |-> a] }

\* The store of a call: the image, the kernel, and fill in the output (which
\* the caller has not initialised) and in all padding.
FilterStore(i, image, weights, fill) ==
    [a \in 1..(i.ker.start + i.ker.rows * i.ker.step) |->
        IF a \in Window(i.in) THEN image[a]
        ELSE IF a \in Window(i.ker) THEN weights[a]
        ELSE fill]

InitFilterRun ==
    /\ \E i \in FilterInputs :
        /\ input = i.in /\ output = i.out /\ kernel = i.ker
        /\ \E image \in Images(i.in), weights \in Weights(i.ker), fill \in {0, 255} :
            mem = FilterStore(i, image, weights, fill)
    /\ func \in {"average", "weighted_sum"}
    /\ acc = NoAcc
    /\ args = NoArgs
    /\ events = <<>>
    /\ pc = "filter_begin"
    /\ y = 0
    /\ x = 0
    /\ TraversalIdle
    /\ brk = 0 /\ views = <<>> /\ cropArgs = <<>> /\ ndebug = FALSE /\ writes = <<>>
    /\ HandleIdle
    /\ ObjectIdle

SpecFilterRun == InitFilterRun /\ [][NextFilter]_vars

\* ------------------------------------------------------- Matrix, views
MaxCrops == 2
MaxWrites == 2

\* Matrix::create: m_rows = rows, m_cols = m_step = cols; m_data = new T[rows * cols]
\* (the block new returns begins at address at); m_start = m_data.get()
Create(rows, cols, at) ==
    [start |-> at, rows |-> rows, cols |-> cols, step |-> cols, data |-> at]

\* A Matrix has m_data; a MatrixWrapper has not.
IsMatrix(mat) == "data" \in DOMAIN mat

\* A plausible slip: the Matrix returned holds no share of m_data, as the view
\* MatrixWrapper::crop returns holds none.
MatrixCropDetached(mat, top, left, rows, cols) ==
    [mat EXCEPT !.start = mat.start + mat.step * top + left,
                !.rows = rows, !.cols = cols, !.data = 0]

\* Matrix::crop: sub = *this; sub.m_start = ...; sub.m_rows = rows; sub.m_cols = cols
MatrixCrop(mat, top, left, rows, cols) ==
    [mat EXCEPT !.start = mat.start + mat.step * top + left,
                !.rows = rows, !.cols = cols]

\* mat.crop(top, left, rows, cols), by the static type of mat
CropOf(mat, a) ==
    IF IsMatrix(mat) THEN MatrixCrop(mat, a.top, a.left, a.rows, a.cols)
                     ELSE WrapperCrop(mat, a.top, a.left, a.rows, a.cols)

\* memcpy(d, s, n * sizeof(T))
MemCpy(store, d, s, n) ==
    [a \in DOMAIN store |->
        IF a >= d /\ a < d + n THEN store[s + (a - d)] ELSE store[a]]

\* A plausible slip: a whole row of the buffer, step elements, is copied.
CopyRowByStep(from, to, store, yy) ==
    MemCpy(store, RowPtr(to, yy), RowPtr(from, yy), from.step)

\* memcpy(dst[y], (*this)[y], m_cols * sizeof(T));
CopyRow(from, to, store, yy) ==
    MemCpy(store, RowPtr(to, yy), RowPtr(from, yy), from.cols)

\* for (y = yy; y < rows(); ++y) memcpy(dst[y], (*this)[y], m_cols * sizeof(T));
RECURSIVE CopyRows(_, _, _, _)
CopyRows(from, to, store, yy) ==
    IF ~(yy < from.rows) THEN store
    ELSE CopyRows(from, to, CopyRow(from, to, store, yy), yy + 1)

\* copy_to's assert
CopyToAssert(from, to) == to.rows = from.rows /\ to.cols = from.cols

\* MatrixWrapper::copy_to: the store afterwards
CopyTo(from, to, store) == CopyRows(from, to, store, 0)

\* A plausible slip: clone returns a Matrix over the source's own cells.
ShallowClone(from, at, store) ==
    [matrix |-> [start |-> from.start, rows |-> from.rows, cols |-> from.cols,
                 step |-> from.step, data |-> at],
     store |-> store]

\* MatrixWrapper::clone: Matrix<T> matrix(m_rows, m_cols); copy_to(matrix);
\* the Matrix returned and the store afterwards
Clone(from, at, store) ==
    [matrix |-> Create(from.rows, from.cols, at),
     store |-> CopyTo(from, Create(from.rows, from.cols, at), store)]

\* The store holds the caller's buffer (or the first Matrix) from address 1 on,
\* and has room for one more block of MaxRows * MaxCols elements.
BufferTop == MaxRows * (MaxCols + MaxPad)

MemTop == BufferTop + MaxRows * MaxCols

\* The buffer's elements are all different; the rest is not allocated yet.
InitialStore(size) == [a \in 1..MemTop |-> IF a <= size THEN a ELSE 0]

\* The first view: a MatrixWrapper over the caller's buffer, with its step, or
\* a Matrix that create has allocated (and the program has filled).
FirstViews ==
    { MatrixWrapper(1, R, C, C + pad) :
        <<R, C, pad>> \in (1..MaxRows) \X (1..MaxCols) \X (0..MaxPad) }
    \cup { Create(R, C, 1) : <<R, C>> \in (1..MaxRows) \X (1..MaxCols) }

\* The crops of mat that stay inside it.
InsideArgs(mat) ==
    { [top |-> t, left |-> l, rows |-> r, cols |-> c] :
        <<t, l, r, c>> \in
            { q \in (0..mat.rows) \X (0..mat.cols) \X (0..mat.rows) \X (0..mat.cols) :
                q[1] + q[3] <= mat.rows /\ q[2] + q[4] <= mat.cols } }

\* The crop that undoes the crop that made the newest view: negative top and
\* left, and the size of the view that was cropped.
UndoArgs(vs, as) ==
    IF Len(vs) < 2 THEN {}
    ELSE { [top |-> 0 - as[Len(as)].top, left |-> 0 - as[Len(as)].left,
            rows |-> vs[Len(vs) - 1].rows, cols |-> vs[Len(vs) - 1].cols] }

Newest == views[Len(views)]

\* crop on the newest view returns: the assert holds or is compiled out
Crop ==
    /\ pc = "crop_ready"
    /\ Len(views) <= MaxCrops
    /\ \E a \in InsideArgs(Newest) \cup UndoArgs(views, cropArgs) :
        /\ CropAssert(Newest, a.top, a.left, a.rows, a.cols) \/ ndebug
        /\ views' = Append(views, CropOf(Newest, a))
        /\ cropArgs' = Append(cropArgs, a)
    /\ UNCHANGED <<pc, mem, brk, ndebug, writes>>
    /\ ViewFrame

\* crop on the newest view fails its assert: the program aborts
CropAbort ==
    /\ pc = "crop_ready"
    /\ Len(views) <= MaxCrops
    /\ ~ndebug
    /\ \E a \in InsideArgs(Newest) \cup UndoArgs(views, cropArgs) :
        /\ ~CropAssert(Newest, a.top, a.left, a.rows, a.cols)
        /\ cropArgs' = Append(cropArgs, a)
    /\ pc' = "crop_abort"
    /\ UNCHANGED <<mem, brk, views, ndebug, writes>>
    /\ ViewFrame

InitCrop ==
    /\ \E v \in FirstViews :
        /\ views = << v >>
        /\ mem = InitialStore(v.rows * v.step)
        /\ brk = 1 + v.rows * v.step
    /\ cropArgs = <<>>
    /\ ndebug \in BOOLEAN
    /\ writes = <<>>
    /\ pc = "crop_ready"
    /\ y = 0
    /\ x = 0
    /\ TraversalIdle
    /\ FilterIdle
    /\ HandleIdle
    /\ FuncIdle
    /\ ObjectIdle

NextCrop ==
    \/ Crop
    \/ CropAbort

SpecCrop == InitCrop /\ [][NextCrop]_vars

\* ---------------------------------------------------- clone, element writes
\* The value the program writes: none of the buffer's initial elements.
NewValue == 0 - 1

\* The view to clone: the first view or a crop of it that stays inside it.
InitClone ==
    /\ \E v \in FirstViews : \E a \in InsideArgs(v) :
        /\ views = << CropOf(v, a) >>
        /\ mem = InitialStore(v.rows * v.step)
        /\ brk = 1 + v.rows * v.step
    /\ cropArgs = <<>>
    /\ ndebug \in BOOLEAN
    /\ writes = <<>>
    /\ pc = "clone_ready"
    /\ y = 0
    /\ x = 0
    /\ TraversalIdle
    /\ FilterIdle
    /\ HandleIdle
    /\ FuncIdle
    /\ ObjectIdle

\* views[1].clone(): the Matrix returned is views[2]
CloneCall ==
    /\ pc = "clone_ready"
    /\ views' = Append(views, Clone(views[1], brk, mem).matrix)
    /\ mem' = Clone(views[1], brk, mem).store
    /\ brk' = brk + views[1].rows * views[1].cols
    /\ pc' = "cloned"
    /\ UNCHANGED <<cropArgs, ndebug, writes>>
    /\ ViewFrame

\* views[h](yy, xx) = NewValue, for a position of the view
WriteElement ==
    /\ pc = "cloned"
    /\ Len(writes) < MaxWrites
    /\ \E h \in 1..Len(views) :
        \E yy \in 0..(views[h].rows - 1), xx \in 0..(views[h].cols - 1) :
            /\ mem' = [mem EXCEPT ![RowPtr(views[h], yy) + xx] = NewValue]
            /\ writes' = Append(writes, [via |-> h, at |-> RowPtr(views[h], yy) + xx])
    /\ UNCHANGED <<pc, brk, views, cropArgs, ndebug>>
    /\ ViewFrame

NextClone ==
    \/ CloneCall
    \/ WriteElement

SpecClone == InitClone /\ [][NextClone]_vars

\* ------------------------------------------------------------- copy_to
\* Two buffers follow each other in the store: the source's and the
\* destination's; every element differs from every other.
CopyBuffer == MaxRows * (MaxCols + MaxPad)

CopyStore == [a \in 1..(2 * CopyBuffer) |-> a]

\* The source: any shape and step; the destination: in the second buffer, of
\* any shape and step.
CopyInputs ==
    { << MatrixWrapper(1, t[1], t[2], t[2] + t[3]),
         MatrixWrapper(CopyBuffer + 1, t[4], t[5], t[5] + t[6]) >> :
        t \in (0..MaxRows) \X (0..MaxCols) \X (0..MaxPad)
              \X (0..MaxRows) \X (0..MaxCols) \X (0..MaxPad) }

\* What copy_to leaves alone.
CopyFrame ==
    UNCHANGED <<x, mats, ptr, calls, input, output, kernel, events,
                brk, views, cropArgs, ndebug, writes, blocks, dead, op, func, acc, args, obj, hist>>

\* views[1].copy_to(views[2]): the assert holds, and y = 0
CopyToBegin ==
    /\ pc = "copy_begin"
    /\ CopyToAssert(views[1], views[2])
    /\ y' = 0
    /\ pc' = "copy_rows"
    /\ UNCHANGED mem
    /\ CopyFrame

\* the assert fails and the program aborts (a build without asserts runs on
\* outside the function's precondition and is not followed here)
CopyToAbort ==
    /\ pc = "copy_begin"
    /\ ~CopyToAssert(views[1], views[2])
    /\ pc' = "copy_abort"
    /\ UNCHANGED <<y, mem>>
    /\ CopyFrame

\* one iteration: memcpy of row y; ++y
CopyToRow ==
    /\ pc = "copy_rows"
    /\ y < views[1].rows
    /\ mem' = CopyRow(views[1], views[2], mem, y)
    /\ y' = y + 1
    /\ UNCHANGED pc
    /\ CopyFrame

\* the loop is left: copy_to returns
CopyToEnd ==
    /\ pc = "copy_rows"
    /\ ~(y < views[1].rows)
    /\ pc' = "copied"
    /\ UNCHANGED <<y, mem>>
    /\ CopyFrame

InitCopyTo ==
    /\ views \in CopyInputs
    /\ mem = CopyStore
    /\ brk = 2 * CopyBuffer + 1
    /\ cropArgs = <<>>
    /\ ndebug = FALSE
    /\ writes = <<>>
    /\ pc = "copy_begin"
    /\ y = 0
    /\ x = 0
    /\ TraversalIdle
    /\ FilterIdle
    /\ HandleIdle
    /\ FuncIdle
    /\ ObjectIdle

NextCopyTo ==
    \/ CopyToBegin
    \/ CopyToAbort
    \/ CopyToRow
    \/ CopyToEnd

SpecCopyTo == InitCopyTo /\ [][NextCopyTo]_vars

\* ------------------------------- copies, assignment, lifetime of objects
\* A plausible slip: the copy is built from start, rows and cols alone, as by
\* MatrixWrapper(start, rows, cols), so its step is cols.
CopyAsUnstrided(type, b) == [f \in type |-> IF f = "step" THEN b.cols ELSE b[f]]

\* The implicit copy constructor and operator= : every member of the object's
\* own class is copied from b
CopyAs(type, b) == [f \in type |-> b[f]]

\* The Matrix whose m_data an object holds a share of; 0 for a MatrixWrapper.
Owner(mat) == IF IsMatrix(mat) THEN mat.data ELSE 0

\* std::shared_ptr<T>(new T[size], deleter): a control block with use count 1
Allocate(bl, at, size) ==
    [a \in DOMAIN bl \cup {at} |->
        IF a = at THEN [size |-> size, use |-> 1, deletes |-> 0] ELSE bl[a]]

\* a shared_ptr is copied: the use count goes up
Retain(bl, d) == IF d = 0 THEN bl ELSE [bl EXCEPT ![d].use = @ + 1]

\* a shared_ptr is destroyed or overwritten: the use count goes down, and the
\* deleter runs delete[] when it reaches 0
Release(bl, d) ==
    IF d = 0 THEN bl
    ELSE [bl EXCEPT ![d].use = @ - 1,
                    ![d].deletes = IF bl[d].use = 1 THEN @ + 1 ELSE @]

Live == (1..Len(views)) \ dead

\* The store: the caller's buffer (or the first Matrix) from address 1 on, and
\* room for the arrays that create allocates.
HandleMemTop == MaxSide * (MaxSide + MaxPad) + MaxOps * MaxSide * MaxSide

HandleStore(size) == [a \in 1..HandleMemTop |-> IF a <= size THEN a ELSE 0]

\* The first object: a MatrixWrapper over the caller's buffer, or a Matrix, of
\* MaxSide rows and columns.
HandleViews ==
    { MatrixWrapper(1, MaxSide, MaxSide, MaxSide + pad) : pad \in 0..MaxPad }
    \cup { Create(MaxSide, MaxSide, 1) }

\* The crops tried on an object: without its first row and column, and
\* without its last row and column.
TrimArgs(mat) ==
    IF mat.rows = 0 \/ mat.cols = 0 THEN {}
    ELSE { [top |-> t, left |-> t, rows |-> mat.rows - 1, cols |-> mat.cols - 1] :
            t \in {0, 1} }

\* T c = views[h];  or  T c(views[h]);
HandleCopy ==
    /\ pc = "handles"
    /\ op.n < MaxOps
    /\ \E h \in Live :
        /\ views' = Append(views, CopyAs(DOMAIN views[h], views[h]))
        /\ blocks' = Retain(blocks, Owner(views[h]))
        /\ op' = [name |-> "copy", target |-> Len(views) + 1, source |-> h,
                  pos |-> <<0, 0>>, n |-> op.n + 1]
    /\ UNCHANGED <<pc, mem, brk, dead>>
    /\ HandleFrame

\* views[a] = views[b];  for two objects of one class
HandleAssign ==
    /\ pc = "handles"
    /\ op.n < MaxOps
    /\ \E a \in Live, b \in Live :
        /\ DOMAIN views[a] = DOMAIN views[b]
        /\ views' = [views EXCEPT ![a] = CopyAs(DOMAIN views[a], views[b])]
        /\ blocks' = Release(Retain(blocks, Owner(views[b])), Owner(views[a]))
        /\ op' = [name |-> "assign", target |-> a, source |-> b, pos |-> <<0, 0>>, n |-> op.n + 1]
    /\ UNCHANGED <<pc, mem, brk, dead>>
    /\ HandleFrame

\* T c = views[h].crop(top, left, rows, cols);
HandleCrop ==
    /\ pc = "handles"
    /\ op.n < MaxOps
    /\ \E h \in Live : \E a \in TrimArgs(views[h]) :
        /\ views' = Append(views, CropOf(views[h], a))
        /\ blocks' = Retain(blocks, Owner(CropOf(views[h], a)))
        /\ op' = [name |-> "crop", target |-> Len(views) + 1, source |-> h,
                  pos |-> <<0, 0>>, n |-> op.n + 1]
    /\ UNCHANGED <<pc, mem, brk, dead>>
    /\ HandleFrame

\* views[h] = views[h].crop(top, left, rows, cols);  the temporary crop returns
\* is assigned to views[h] and destroyed
HandleCropAssign ==
    /\ pc = "handles"
    /\ op.n < MaxOps
    /\ \E h \in Live : \E a \in TrimArgs(views[h]) :
        /\ views' = [views EXCEPT
                        ![h] = CopyAs(DOMAIN views[h], CropOf(views[h], a))]
        /\ blocks' = Release(Release(Retain(Retain(blocks,
                                 Owner(CropOf(views[h], a))),
                                 Owner(CropOf(views[h], a))),
                                 Owner(views[h])),
                                 Owner(CropOf(views[h], a)))
        /\ op' = [name |-> "crop_assign", target |-> h, source |-> h,
                  pos |-> <<0, 0>>, n |-> op.n + 1]
    /\ UNCHANGED <<pc, mem, brk, dead>>
    /\ HandleFrame

\* Matrix<T> m(rows, cols);
HandleNew ==
    /\ pc = "handles"
    /\ op.n < MaxOps
    /\ \E R \in {1, MaxSide}, C \in {MaxSide} :
        /\ views' = Append(views, Create(R, C, brk))
        /\ blocks' = Allocate(blocks, brk, R * C)
        /\ brk' = brk + R * C
    /\ op' = [name |-> "new", target |-> Len(views) + 1, source |-> 0,
              pos |-> <<0, 0>>, n |-> op.n + 1]
    /\ UNCHANGED <<pc, mem, dead>>
    /\ HandleFrame

\* views[h].create(rows, cols);  on a Matrix: m_data is overwritten
HandleCreate ==
    /\ pc = "handles"
    /\ op.n < MaxOps
    /\ \E h \in Live : \E R \in {1, MaxSide}, C \in {MaxSide} :
        /\ IsMatrix(views[h])
        /\ views' = [views EXCEPT ![h] = Create(R, C, brk)]
        /\ blocks' = Release(Allocate(blocks, brk, R * C), Owner(views[h]))
        /\ brk' = brk + R * C
        /\ op' = [name |-> "create", target |-> h, source |-> 0, pos |-> <<0, 0>>, n |-> op.n + 1]
    /\ UNCHANGED <<pc, mem, dead>>
    /\ HandleFrame

\* views[h] goes out of scope: its members are destroyed
HandleDestroy ==
    /\ pc = "handles"
    /\ op.n < MaxOps
    /\ \E h \in Live :
        /\ dead' = dead \cup {h}
        /\ blocks' = Release(blocks, Owner(views[h]))
        /\ op' = [name |-> "destroy", target |-> h, source |-> 0, pos |-> <<0, 0>>, n |-> op.n + 1]
    /\ UNCHANGED <<pc, mem, brk, views>>
    /\ HandleFrame

\* a = b;  a(yy, xx) = NewValue;  or  b(yy, xx) = NewValue;  the last statement
\* followed
HandleWrite ==
    /\ pc = "handles"
    /\ op.n < MaxOps
    /\ op.name \in {"copy", "assign"}
    /\ \E h \in Live \cap {op.target, op.source} :
        \E yy \in 0..(views[h].rows - 1), xx \in 0..(views[h].cols - 1) :
            /\ mem' = [mem EXCEPT ![RowPtr(views[h], yy) + xx] = NewValue]
            /\ op' = [name |-> "write", target |-> h, source |-> h,
                      pos |-> <<yy, xx>>, n |-> op.n + 1]
    /\ pc' = "written"
    /\ UNCHANGED <<brk, views, blocks, dead>>
    /\ HandleFrame

InitHandles ==
    /\ \E v \in HandleViews :
        /\ views = << v >>
        /\ mem = HandleStore(v.rows * v.step)
        /\ brk = 1 + v.rows * v.step
        /\ blocks = IF IsMatrix(v) THEN Allocate(<<>>, 1, v.rows * v.cols) ELSE <<>>
    /\ dead = {}
    /\ op = NoOp
    /\ cropArgs = <<>>
    /\ ndebug = FALSE
    /\ writes = <<>>
    /\ pc = "handles"
    /\ op.n < MaxOps
    /\ y = 0
    /\ x = 0
    /\ TraversalIdle
    /\ FilterIdle
    /\ FuncIdle
    /\ ObjectIdle

NextHandles ==
    \/ HandleCopy
    \/ HandleAssign
    \/ HandleCrop
    \/ HandleCropAssign
    \/ HandleNew
    \/ HandleCreate
    \/ HandleDestroy
    \/ HandleWrite

SpecHandles == InitHandles /\ [][NextHandles]_vars

\* ------------------------------------------------------ gaussian_kernel
\* What gaussian_kernel leaves alone.
GaussianFrame ==
    UNCHANGED <<mats, ptr, calls, input, output, views, cropArgs, ndebug, writes,
                dead, op, func, acc, args, obj, hist>>

\* double w = exp(-factor * (dx*dx+dy*dy)) with factor = 0.5 / (sigma * sigma):
\* the power e is raised to, as a fraction.
Gaussian(dx, dy, sigma) ==
    [num |-> 0 - (dx * dx + dy * dy), den |-> 2 * sigma * sigma]

\* What memory that was never assigned may hold: a weight, or no weight.
Garbage(sigma) == { Gaussian(0, 0, sigma), [num |-> 1, den |-> 1] }

\* The array new T[rows * cols] returns begins here: the addresses before it,
\* and those after it, belong to other objects.
GaussianBase == 1 + MaxGauss

GaussianTop == GaussianBase + MaxGauss * MaxGauss + MaxGauss + 1

\* Address a lies in an array new T[] returned.
InBlock(a) == \E b \in DOMAIN blocks : a >= b /\ a < b + blocks[b].size

\* his::Matrix<T> kernel(rows, cols);
GaussianBegin ==
    /\ pc = "gaussian_begin"
    /\ kernel' = Create(args.rows, args.cols, brk)
    /\ blocks' = Allocate(blocks, brk, args.rows * args.cols)
    /\ brk' = brk + args.rows * args.cols
    /\ pc' = "gaussian_loop"
    /\ y' = 0
    /\ x' = 0
    /\ UNCHANGED <<events, mem>>
    /\ GaussianFrame

\* kernel(rows/2-dy, rows/2-dx), kernel(rows/2-dy, rows/2+dx),
\* kernel(rows/2+dy, rows/2+dx), kernel(rows/2+dy, rows/2-dx)
GaussianIndices(dy, dx) ==
    LET r2 == args.rows \div 2
    IN  << <<r2 - dy, r2 - dx>>, <<r2 - dy, r2 + dx>>,
           <<r2 + dy, r2 + dx>>, <<r2 + dy, r2 - dx>> >>

\* the elements kernel(y, x) refers to for these four
GaussianCells(dy, dx) ==
    [i \in 1..4 |-> Element(kernel, GaussianIndices(dy, dx)[i][1],
                                    GaussianIndices(dy, dx)[i][2])]

\* ... = T(w) for the four cells, one after the other
GaussianAssign(store, cells, w) ==
    [a \in DOMAIN store |-> IF \E i \in 1..Len(cells) : cells[i] = a THEN w ELSE store[a]]

GaussianLog(dy, dx) ==
    [i \in 1..4 |-> [f |-> "assign", at |-> GaussianCells(dy, dx)[i],
                     pos |-> GaussianIndices(dy, dx)[i]]]

\* the body of the inner loop, every cell inside the array
GaussianStep ==
    /\ pc = "gaussian_loop"
    /\ y <= args.rows \div 2
    /\ x <= args.cols \div 2
    /\ \A i \in 1..4 : InBlock(GaussianCells(y, x)[i])
    /\ mem' = GaussianAssign(mem, GaussianCells(y, x), Gaussian(x, y, args.sigma))
    /\ events' = events \o GaussianLog(y, x)
    /\ x' = x + 1
    /\ UNCHANGED <<pc, y, kernel, brk, blocks>>
    /\ GaussianFrame

\* the body of the inner loop, a cell outside the array: the assignment lands
\* in the neighbouring object, or the run ends
GaussianOverrun ==
    /\ pc = "gaussian_loop"
    /\ y <= args.rows \div 2
    /\ x <= args.cols \div 2
    /\ \E i \in 1..4 : ~InBlock(GaussianCells(y, x)[i])
    /\ \/ /\ mem' = GaussianAssign(mem, GaussianCells(y, x), Gaussian(x, y, args.sigma))
          /\ events' = events \o GaussianLog(y, x)
          /\ x' = x + 1
          /\ UNCHANGED pc
       \/ /\ pc' = "gaussian_fault"
          /\ UNCHANGED <<mem, events, x>>
    /\ UNCHANGED <<y, kernel, brk, blocks>>
    /\ GaussianFrame

\* dx > cols/2: ++dy
GaussianRowEnd ==
    /\ pc = "gaussian_loop"
    /\ y <= args.rows \div 2
    /\ x > args.cols \div 2
    /\ y' = y + 1
    /\ x' = 0
    /\ UNCHANGED <<pc, kernel, events, mem, brk, blocks>>
    /\ GaussianFrame

\* dy > rows/2: return kernel;
GaussianReturn ==
    /\ pc = "gaussian_loop"
    /\ y > args.rows \div 2
    /\ pc' = "gaussian_done"
    /\ UNCHANGED <<y, x, kernel, events, mem, brk, blocks>>
    /\ GaussianFrame

InitGaussian ==
    /\ args \in [rows : 1..MaxGauss, cols : 1..MaxGauss, sigma : {1, 2}]
    /\ mem \in { [a \in 1..GaussianTop |-> g] : g \in Garbage(args.sigma) }
    /\ brk = GaussianBase
    /\ pc = "gaussian_begin"
    /\ y = 0
    /\ x = 0
    /\ TraversalIdle
    /\ FilterIdle
    /\ views = <<>> /\ cropArgs = <<>> /\ ndebug = FALSE /\ writes = <<>>
    /\ HandleIdle
    /\ func = "none" /\ acc = NoAcc
    /\ ObjectIdle

NextGaussian ==
    \/ GaussianBegin
    \/ GaussianStep
    \/ GaussianOverrun
    \/ GaussianRowEnd
    \/ GaussianReturn

SpecGaussian == InitGaussian /\ [][NextGaussian]_vars

\* ------------------------------------------------- MatrixWrapper::set
\* What set leaves alone.
SetFrame ==
    UNCHANGED <<mats, ptr, calls, input, output, kernel, events, brk, views,
                cropArgs, ndebug, writes, blocks, dead, op, func, acc, args, obj, hist>>

\* The buffer a view of rows rows and step step was made over: the addresses
\* after it belong to other objects.
InBuffer(mat, a) == a >= mat.start /\ a < mat.start + mat.rows * mat.step

SetTop == MaxRows * (MaxCols + MaxPad) + MaxRows

\* The inner loop as wide as the view.
SetWidthByCols(mat) == mat.cols

\* for (size_t x = 0; x < rows(); ++x)
SetWidth(mat) == mat.rows

\* (*this)[y][x] = init_val;  inside the buffer
SetCell ==
    /\ pc = "set"
    /\ y < mats[1].rows
    /\ x < SetWidth(mats[1])
    /\ InBuffer(mats[1], RowPtr(mats[1], y) + x)
    /\ mem' = [mem EXCEPT ![RowPtr(mats[1], y) + x] = args.init_val]
    /\ x' = x + 1
    /\ UNCHANGED <<pc, y>>
    /\ SetFrame

\* (*this)[y][x] = init_val;  outside the buffer: the assignment lands in the
\* neighbouring object, or the run ends
SetOverrun ==
    /\ pc = "set"
    /\ y < mats[1].rows
    /\ x < SetWidth(mats[1])
    /\ ~InBuffer(mats[1], RowPtr(mats[1], y) + x)
    /\ \/ /\ mem' = [mem EXCEPT ![RowPtr(mats[1], y) + x] = args.init_val]
          /\ x' = x + 1
          /\ UNCHANGED pc
       \/ /\ pc' = "set_fault"
          /\ UNCHANGED <<mem, x>>
    /\ UNCHANGED y
    /\ SetFrame

\* the inner loop ends: ++y
SetRowEnd ==
    /\ pc = "set"
    /\ y < mats[1].rows
    /\ ~(x < SetWidth(mats[1]))
    /\ y' = y + 1
    /\ x' = 0
    /\ UNCHANGED <<pc, mem>>
    /\ SetFrame

\* set returns, and the caller goes on to for_each or for_each_pair over the view
SetReturn ==
    /\ pc = "set"
    /\ ~(y < mats[1].rows)
    /\ pc' \in {"each_begin", "pair_begin"}
    /\ y' = 0
    /\ x' = 0
    /\ UNCHANGED mem
    /\ SetFrame

InitSet ==
    /\ \E R \in 0..MaxRows, C \in 0..MaxCols, pad \in 0..MaxPad :
        mats = << MatrixWrapper(1, R, C, C + pad) >>
    /\ mem = [a \in 1..SetTop |-> a]
    /\ args \in [init_val : {0 - 1, 0}]
    /\ pc = "set"
    /\ y = 0
    /\ x = 0
    /\ ptr = NoPtrs
    /\ calls = <<>>
    /\ FilterIdle
    /\ brk = 0 /\ views = <<>> /\ cropArgs = <<>> /\ ndebug = FALSE /\ writes = <<>>
    /\ HandleIdle
    /\ func = "none" /\ acc = NoAcc
    /\ ObjectIdle

NextSet ==
    \/ SetCell
    \/ SetOverrun
    \/ SetRowEnd
    \/ SetReturn
    \/ PairBegin
    \/ FirstColumn
    \/ FirstColumnEnd
    \/ FirstRow
    \/ FirstRowEnd
    \/ RestRow
    \/ RestInner
    \/ RestRowEnd
    \/ PairEnd
    \/ EachBegin
    \/ EachRow
    \/ EachCol
    \/ EachRowEnd
    \/ EachEnd

SpecSet == InitSet /\ [][NextSet]_vars

\* ---------------------------------------------------------- SegmentTree
\* SegmentTree: the longest sequence the tree is built over.
MaxLen == 4

\* What the calls on a SegmentTree, UFSet or BinaryIndexedTree leave alone.
ObjectFrame ==
    UNCHANGED <<y, x, mats, ptr, calls, input, output, kernel, events, mem, brk,
                views, cropArgs, ndebug, writes, blocks, dead, op, func, acc>>

\* A plausible slip: the operands the other way round.
OperationSwapped(kind, a, b) == IF kind = "plus" THEN b + a ELSE b \o a

\* m_operation(a, b):  [](int a, int b)->int { return a + b; }  or
\* [](const string &a, const string &b)->string { return a + b; }
Operation(kind, a, b) == IF kind = "plus" THEN a + b ELSE a \o b

\* size_t get_left_child(size_t id) { return id * 2 + 1; }
GetLeftChild(id) == id * 2 + 1

\* size_t get_right_child(size_t id) { return id * 2 + 2; }
GetRightChild(id) == id * 2 + 2

\* int leaves = 1;  while (leaves < size) leaves *= 2;
RECURSIVE Leaves(_, _)
Leaves(leaves, size) == IF leaves < size THEN Leaves(leaves * 2, size) ELSE leaves

\* for (int i = leaves-2; i >= 0; --i)
\*     m_tree[i] = m_operation(m_tree[get_left_child(i)], m_tree[get_right_child(i)]);
RECURSIVE FillInternal(_, _, _)
FillInternal(tree, kind, i) ==
    IF i < 0 THEN tree
    ELSE FillInternal([tree EXCEPT ![i] = Operation(kind, tree[GetLeftChild(i)],
                                                    tree[GetRightChild(i)])],
                      kind, i - 1)

\* The constructor: the leaves at the end of m_tree, identities after them, then
\* the internal nodes.
SegmentTree(values, identity, kind) ==
    LET size == Len(values)
        leaves == Leaves(1, size)
        filled == [i \in 0..(leaves * 2 - 2) |->
                    IF i >= leaves - 1 /\ i < leaves - 1 + size
                    THEN values[i - (leaves - 1) + 1]
                    ELSE identity]
    IN  [m_identity |-> identity, m_operation |-> kind,
         m_tree |-> FillInternal(filled, kind, leaves - 2)]

\* query(start, end, node_start, node_end, node_id)
RECURSIVE QueryNode(_, _, _, _, _, _)
QueryNode(t, start, end, node_start, node_end, node_id) ==
    IF start <= node_start /\ node_end <= end THEN t.m_tree[node_id]
    ELSE IF end <= node_start \/ node_end <= start THEN t.m_identity
    ELSE LET mid == (node_start + node_end) \div 2
         IN  Operation(t.m_operation,
                       QueryNode(t, start, end, node_start, mid, GetLeftChild(node_id)),
                       QueryNode(t, start, end, mid, node_end, GetRightChild(node_id)))

\* return query(start, end, 0, (m_tree.size()+1) / 2, 0);
Query(t, start, end) ==
    QueryNode(t, start, end, 0, (Cardinality(DOMAIN t.m_tree) + 1) \div 2, 0)

\* The sequences of at most MaxLen elements of S.
SeqsOf(S) == UNION { [1..n -> S] : n \in 0..MaxLen }

\* TestSummation: vector<int> with operator+ and identity 0.
SummationInputs ==
    { [values |-> v, identity |-> 0, operation |-> "plus"] : v \in SeqsOf({0 - 1, 2}) }

\* TestStringConcatenation: a string with concatenation and identity "".
ConcatenationInputs ==
    { [values |-> v, identity |-> <<>>, operation |-> "concat"] :
        v \in SeqsOf({<<"a">>, <<"b">>}) }

\* his::SegmentTree<ValueType> segm_tree(begin(values), end(values), identity, op);
SegmentNew ==
    /\ pc = "segment_new"
    /\ obj' = SegmentTree(args.values, args.identity, args.operation)
    /\ pc' = "segment"
    /\ UNCHANGED <<args, hist>>
    /\ ObjectFrame

\* segm_tree.query(start, end)
SegmentQuery ==
    /\ pc = "segment"
    /\ \E start \in 0..Len(args.values), end \in 0..Len(args.values) :
        hist' = Append(hist, [name |-> "query", start |-> start, end |-> end,
                              ret |-> Query(obj, start, end)])
    /\ pc' = "segment_queried"
    /\ UNCHANGED <<args, obj>>
    /\ ObjectFrame

InitSegment ==
    /\ \/ args \in SummationInputs
       \/ args \in ConcatenationInputs
    /\ obj = NoObject
    /\ hist = <<>>
    /\ pc = "segment_new"
    /\ y = 0
    /\ x = 0
    /\ TraversalIdle
    /\ FilterIdle
    /\ ViewIdle
    /\ func = "none" /\ acc = NoAcc

NextSegment ==
    \/ SegmentNew
    \/ SegmentQuery

SpecSegment == InitSegment /\ [][NextSegment]_vars

\* ---------------------------------------------------------------- UFSet
\* UFSet: the most elements of a set, and the most calls made on one.
MaxN == 3
MaxCalls == 3

\* int Root(int id): the root of id, and m_parent after the halving of the
\* path on the way.
RECURSIVE Root(_, _)
Root(m_parent, id) ==
    IF id = m_parent[id] THEN [m_parent |-> m_parent, ret |-> id]
    ELSE LET up == m_parent[id]
             p == m_parent[up]
         IN  Root([m_parent EXCEPT ![up] = m_parent[p]], p)

\* UFSet(size_t size): m_parent[i] = i
UFSet(size) == [m_parent |-> [i \in 0..(size - 1) |-> i]]

\* bool Merge(size_t id1, size_t id2): m_parent[root2] = root1, then
\* m_parent[id1] = root1.
Merge(set, id1, id2) ==
    LET first == Root(set.m_parent, id1)
        second == Root(first.m_parent, id2)
        root1 == first.ret
        root2 == second.ret
        linked == [second.m_parent EXCEPT ![root2] = root1]
    IN  [m_parent |-> [linked EXCEPT ![id1] = root1], ret |-> root1 # root2]

\* int Query(size_t id) { return m_parent[id]; }
QueryId(set, id) == set.m_parent[id]

\* The first loop of Reduce: m_parent[i] = Root(i), and the root gets the next
\* rid unless it has one (unordered_map::insert keeps an existing entry).
RECURSIVE ReduceRoots(_, _, _)
ReduceRoots(m_parent, root_to_rid, i) ==
    IF i >= Cardinality(DOMAIN m_parent)
    THEN [m_parent |-> m_parent, root_to_rid |-> root_to_rid]
    ELSE LET found == Root(m_parent, i)
             rid == Cardinality(DOMAIN root_to_rid)
         IN  ReduceRoots([found.m_parent EXCEPT ![i] = found.ret],
                         IF found.ret \in DOMAIN root_to_rid
                         THEN root_to_rid
                         ELSE [r \in DOMAIN root_to_rid \cup {found.ret} |->
                                 IF r = found.ret THEN rid ELSE root_to_rid[r]],
                         i + 1)

\* int Reduce(): the second loop replaces every m_parent[i] by the rid of it.
Reduce(set) ==
    LET roots == ReduceRoots(set.m_parent, <<>>, 0)
    IN  [m_parent |-> [i \in DOMAIN set.m_parent |->
                         roots.root_to_rid[roots.m_parent[i]]],
         ret |-> Cardinality(DOMAIN roots.root_to_rid)]

\* UFSet set(size);
UFSetNew ==
    /\ pc = "ufset_new"
    /\ obj' = UFSet(args.size)
    /\ pc' = "ufset"
    /\ UNCHANGED <<args, hist>>
    /\ ObjectFrame

\* set.Merge(id1, id2)
UFSetMerge ==
    /\ pc = "ufset"
    /\ Len(hist) < MaxCalls
    /\ \E id1 \in DOMAIN obj.m_parent, id2 \in DOMAIN obj.m_parent :
        LET merged == Merge(obj, id1, id2)
        IN  /\ obj' = [m_parent |-> merged.m_parent]
            /\ hist' = Append(hist, [name |-> "Merge", id1 |-> id1, id2 |-> id2,
                                     ret |-> merged.ret])
    /\ UNCHANGED <<pc, args>>
    /\ ObjectFrame

\* set.Reduce()
UFSetReduce ==
    /\ pc = "ufset"
    /\ Len(hist) < MaxCalls
    /\ LET reduced == Reduce(obj)
       IN  /\ obj' = [m_parent |-> reduced.m_parent]
           /\ hist' = Append(hist, [name |-> "Reduce", id1 |-> 0, id2 |-> 0,
                                    ret |-> reduced.ret])
    /\ UNCHANGED <<pc, args>>
    /\ ObjectFrame

InitUFSet ==
    /\ args \in [size : 1..MaxN]
    /\ obj = NoObject
    /\ hist = <<>>
    /\ pc = "ufset_new"
    /\ y = 0
    /\ x = 0
    /\ TraversalIdle
    /\ FilterIdle
    /\ ViewIdle
    /\ func = "none" /\ acc = NoAcc

NextUFSet ==
    \/ UFSetNew
    \/ UFSetMerge
    \/ UFSetReduce

SpecUFSet == InitUFSet /\ [][NextUFSet]_vars

\* ---------------------------------------------------- BinaryIndexedTree
\* BinaryIndexedTree: the largest size of a tree.
MaxSize == 5

\* Key is an integer type: the values of it, a power of two of them.
KeyRange == 2 ^ 20

\* a & b on non-negative a and b, bit by bit.
RECURSIVE BitAnd(_, _)
BitAnd(a, b) ==
    IF a = 0 \/ b = 0 THEN 0
    ELSE (a % 2) * (b % 2) + 2 * BitAnd(a \div 2, b \div 2)

\* A plausible slip: every key steps by one.
LastBitOne(key) == 1

\* Key last_bit(Key key) { return key & (-key); }, -key in two's complement.
LastBit(key) == BitAnd(key, (KeyRange - key) % KeyRange)

\* BinaryIndexedTree(int size) : m_tree(size, 0)
BinaryIndexedTree(size) == [m_tree |-> [i \in 0..(size - 1) |-> 0]]

\* void Add(Key key, Value val)
RECURSIVE Add(_, _, _)
Add(tree, key, val) ==
    IF key < Cardinality(DOMAIN tree.m_tree)
    THEN Add([m_tree |-> [tree.m_tree EXCEPT ![key] = @ + val]],
             key + LastBit(key), val)
    ELSE tree

\* Value Accumulate(Key key)
RECURSIVE Accumulate(_, _)
Accumulate(tree, key) ==
    IF key > 0 THEN tree.m_tree[key] + Accumulate(tree, key - LastBit(key))
    ELSE 0

\* Value Get(Key key) { return Accumulate(key) - Accumulate(key-1); }
Get(tree, key) == Accumulate(tree, key) - Accumulate(tree, key - 1)

\* void Set(Key key, Value val) { Add(key, val - Get(key)); }
Set(tree, key, val) == Add(tree, key, val - Get(tree, key))

\* The values passed to Add and Set.
Vals == {0 - 1, 2}

\* BinaryIndexedTree<Key, Value> tree(size);
TreeNew ==
    /\ pc = "tree_new"
    /\ obj' = BinaryIndexedTree(args.size)
    /\ pc' = "tree"
    /\ UNCHANGED <<args, hist>>
    /\ ObjectFrame

\* tree.Add(key, val) with 0 < key < size
TreeAdd ==
    /\ pc = "tree"
    /\ Len(hist) < MaxCalls
    /\ \E key \in 1..(args.size - 1), val \in Vals :
        /\ obj' = Add(obj, key, val)
        /\ hist' = Append(hist, [name |-> "Add", key |-> key, val |-> val])
    /\ UNCHANGED <<pc, args>>
    /\ ObjectFrame

\* tree.Set(key, val) with 0 < key < size
TreeSet ==
    /\ pc = "tree"
    /\ Len(hist) < MaxCalls
    /\ \E key \in 1..(args.size - 1), val \in Vals :
        /\ obj' = Set(obj, key, val)
        /\ hist' = Append(hist, [name |-> "Set", key |-> key, val |-> val])
    /\ UNCHANGED <<pc, args>>
    /\ ObjectFrame

InitTree ==
    /\ args \in [size : 1..MaxSize]
    /\ obj = NoObject
    /\ hist = <<>>
    /\ pc = "tree_new"
    /\ y = 0
    /\ x = 0
    /\ TraversalIdle
    /\ FilterIdle
    /\ ViewIdle
    /\ func = "none" /\ acc = NoAcc

NextTree ==
    \/ TreeNew
    \/ TreeAdd
    \/ TreeSet

SpecTree == InitTree /\ [][NextTree]_vars

\* ------------------------------------------------- positions of addresses
\* The position (row, column) of matrix mat that address a is the cell of.
PosOf(mat, a) ==
    IF mat.step > 0
    THEN << (a - mat.start) \div mat.step, (a - mat.start) % mat.step >>
    ELSE << -1, -1 >>

InGrid(pos) == pos[1] \in 0..(Rows - 1) /\ pos[2] \in 0..(Cols - 1)

\* The two positions call i passes for matrix k, in argument order.
PairPos(i, k) ==
    << PosOf(mats[k], calls[i][k][1]), PosOf(mats[k], calls[i][k][2]) >>

\* The unordered pairs of 4-adjacent positions of the grid.
AdjacentPairs ==
    { {<<r, c>>, <<r + 1, c>>} : <<r, c>> \in (0..(Rows - 2)) \X (0..(Cols - 1)) }
    \cup
    { {<<r, c>>, <<r, c + 1>>} : <<r, c>> \in (0..(Rows - 1)) \X (0..(Cols - 2)) }

\* C1: for every R x C grid with R >= 1 and C >= 1, for_each_pair invokes the
\* functor exactly R*(C-1) + C*(R-1) times and every unordered pair of
\* 4-adjacent positions is passed exactly once (a 1x1 grid: no invocation).
C1_EveryPairOnce ==
    (pc = "pair_done" /\ Rows >= 1 /\ Cols >= 1) =>
        /\ Len(calls) = Rows * (Cols - 1) + Cols * (Rows - 1)
        /\ \A k \in 1..NMats :
            /\ \A i \in 1..Len(calls) :
                {PairPos(i, k)[1], PairPos(i, k)[2]} \in AdjacentPairs
            /\ \A e \in AdjacentPairs :
                Cardinality({ i \in 1..Len(calls) :
                                {PairPos(i, k)[1], PairPos(i, k)[2]} = e }) = 1

\* A finished traversal of a 3 x 3 grid with padded rows, and one of a 1 x 1 grid
\* are both covered; the witness is the padded 3 x 3 one with 12 invocations.
C1_Witness ==
    /\ pc = "pair_done"
    /\ Rows = 3 /\ Cols = 3
    /\ mats[1].step > Cols
    /\ Len(calls) = 12

\* C2: in every invocation made by for_each_pair, for each of the 1 to 4
\* grids the first element is at a position p of the grid and the second at
\* the position q directly below or directly right of p, and all grids of the
\* call are addressed at the same two positions.
C2_DownOrRight ==
    \A i \in 1..Len(calls) : \A k \in 1..NMats :
        LET p == PairPos(i, k)[1]
            q == PairPos(i, k)[2]
        IN  /\ InGrid(p) /\ InGrid(q)
            /\ \/ q = <<p[1] + 1, p[2]>>
               \/ q = <<p[1], p[2] + 1>>
            /\ PairPos(i, k) = PairPos(i, 1)

\* The same, for the grids that have a cell: there it holds.
DownOrRightNonEmpty == (Rows >= 1 /\ Cols >= 1) => C2_DownOrRight

\* The order the specification gives: column 0 downwards, row 0 rightwards,
\* then row by row and column by column the vertical and the horizontal pair.
ExpectedPairOrder ==
    [yy \in 1..(Rows - 1) |-> << <<yy - 1, 0>>, <<yy, 0>> >>]
    \o [xx \in 1..(Cols - 1) |-> << <<0, xx - 1>>, <<0, xx>> >>]
    \o [j \in 1..(2 * (Rows - 1) * (Cols - 1)) |->
          LET t == (j - 1) \div 2
              yy == 1 + (t \div (Cols - 1))
              xx == 1 + (t % (Cols - 1))
          IN  IF j % 2 = 1 THEN << <<yy - 1, xx>>, <<yy, xx>> >>
                           ELSE << <<yy, xx - 1>>, <<yy, xx>> >>]

\* C3: for an R x C grid (R, C >= 1) the invocations come in exactly this
\* order: the vertical pairs of column 0 top to bottom, the horizontal pairs of
\* row 0 left to right, then for each row y >= 1 and column x >= 1 the vertical
\* pair ((y-1,x),(y,x)) immediately followed by the horizontal ((y,x-1),(y,x)).
C3_PairOrder ==
    (pc = "pair_done" /\ Rows >= 1 /\ Cols >= 1) =>
        \A k \in 1..NMats :
            [i \in 1..Len(calls) |-> PairPos(i, k)] = ExpectedPairOrder

\* A finished traversal of a grid that has all three phases.
C3_Witness ==
    /\ pc = "pair_done"
    /\ Rows = 3 /\ Cols = 2
    /\ Len(calls) = 7

\* The step-by-step for_each and for_each taken as a whole make the same calls.
ForEachAgrees == pc = "each_done" => calls = ForEach(mats)

\* C4: for 1 to 4 grids of shape R x C (R, C >= 0, step >= cols), for_each
\* invokes the functor exactly R*C times, in row-major order; argument k of
\* the invocation for (y,x) is the cell origin + step*y + x of grid k, so no
\* padding cell is passed.
C4_RowMajor ==
    pc = "each_done" =>
        /\ Len(calls) = Rows * Cols
        /\ \A i \in 1..Len(calls) : \A k \in 1..NMats :
            LET yy == (i - 1) \div Cols
                xx == (i - 1) % Cols
            IN  /\ calls[i][k] = mats[k].start + mats[k].step * yy + xx
                /\ PosOf(mats[k], calls[i][k]) = <<yy, xx>>
                /\ InGrid(PosOf(mats[k], calls[i][k]))

\* A finished for_each over four grids, one of them padded, of 2 x 3 cells.
C4_Witness ==
    /\ pc = "each_done"
    /\ NMats = 4
    /\ Rows = 2 /\ Cols = 3
    /\ mats[3].step > Cols
    /\ Len(calls) = 6

\* ------------------------------------------------------ filter's events
SetMin(S) == CHOOSE m \in S : \A n \in S : m <= n

SetMax(S) == CHOOSE m \in S : \A n \in S : m >= n

\* The invocations of accm, and of eval, made while position pos was processed.
AccmIdx(pos) ==
    { i \in 1..Len(events) : events[i].f = "accm" /\ events[i].pos = pos }

EvalIdx(pos) ==
    { i \in 1..Len(events) : events[i].f = "eval" /\ events[i].pos = pos }

\* The output positions filter has processed.
Processed == { events[i].pos : i \in 1..Len(events) }

\* The invocations of eval that were given the output cell at pos.
EvalOf(pos) ==
    { i \in 1..Len(events) :
        events[i].f = "eval" /\ PosOf(output, events[i].out) = pos }

OutputPositions == (0..(output.rows - 1)) \X (0..(output.cols - 1))

\* C5: for every kernel with odd rows and odd cols (square or not) that
\* satisfies filter's asserts, eval is invoked exactly once for each output
\* position (y,x), 0 <= y < R, 0 <= x < C: the five parts are pairwise
\* disjoint and together cover every position.
C5_EvalOncePerPosition ==
    pc = "filter_done" =>
        \A pos \in OutputPositions : Cardinality(EvalOf(pos)) = 1

\* The same for square kernels only: there it holds.
EvalOncePerPositionSquare ==
    kernel.rows = kernel.cols => C5_EvalOncePerPosition

\* The clipped window of position pos, row by row: each input cell with the
\* kernel cell it belongs to.
ExpectedWindow(pos) ==
    LET y0 == Max(0, pos[1] - Kr)
        y1 == Min(input.rows - 1, pos[1] + Kr)
        x0 == Max(0, pos[2] - Kc)
        x1 == Min(input.cols - 1, pos[2] + Kc)
        w == x1 - x0 + 1
    IN  [j \in 1..((y1 - y0 + 1) * w) |->
            LET yy == y0 + ((j - 1) \div w)
                xx == x0 + ((j - 1) % w)
            IN  << <<yy, xx>>, <<yy - pos[1] + Kr, xx - pos[2] + Kc>> >>]

\* The (input cell, kernel cell) pairs accm was given for position pos, in order.
AccmPairs(pos) ==
    LET mine == SelectSeq(events, LAMBDA e : e.f = "accm" /\ e.pos = pos)
    IN  [j \in 1..Len(mine) |->
            << PosOf(input, mine[j].in), PosOf(kernel, mine[j].k) >>]

\* C6: for every output position (y,x) that filter processes, accm is invoked
\* exactly once for each input cell of the clipped window, paired with the
\* kernel cell (y'-y+kr, x'-x+kc), in row-major order, and for no other pair
\* (an unclipped window: exactly kernel.rows * kernel.cols invocations).
C6_AccmOncePerWindowCell ==
    pc = "filter_done" =>
        \A pos \in Processed : AccmPairs(pos) = ExpectedWindow(pos)

\* The same for square kernels only: there it holds.
AccmOncePerWindowCellSquare ==
    kernel.rows = kernel.cols => C6_AccmOncePerWindowCell

\* C7: for each output position all accm invocations for that position occur
\* before the eval invocation for that position, eval receives output(y,x) of
\* that position, and no accm invocation of another position occurs between
\* the first accm and the eval of a position.
C7_AccmBeforeEval ==
    pc = "filter_done" =>
        \A pos \in Processed :
            /\ EvalIdx(pos) # {}
            /\ \A i \in AccmIdx(pos) : \A j \in EvalIdx(pos) : i < j
            /\ \A j \in EvalIdx(pos) : PosOf(output, events[j].out) = pos
            /\ AccmIdx(pos) # {} =>
                \A m \in SetMin(AccmIdx(pos))..SetMin(EvalIdx(pos)) :
                    events[m].f = "accm" => events[m].pos = pos

\* The same for square kernels only: there it holds.
AccmBeforeEvalSquare ==
    kernel.rows = kernel.cols => C7_AccmBeforeEval

\* ------------------------------------------------------- views' cells
\* The logical address of cell (yy, xx) of a view: origin + step * yy + xx.
At(mat, yy, xx) == mat.start + mat.step * yy + xx

\* The addresses of the cells of a view's rows x cols window.
Cells(mat) ==
    { At(mat, yy, xx) : <<yy, xx>> \in (0..(mat.rows - 1)) \X (0..(mat.cols - 1)) }

\* A step in which a crop call returned a new view.
CropReturned == Len(views') = Len(views) + 1 /\ Len(cropArgs') = Len(views)

\* C8: crop(top, left, rows, cols) on a view v (MatrixWrapper or Matrix)
\* returns a view c with c.rows = rows, c.cols = cols, c.step = v.step and
\* origin = v.origin + v.step*top + left, so c(y,x) is the cell v(top+y, left+x)
\* for all y, x; v's own origin, rows, cols and step and the store are unchanged.
C8_CropResult ==
    [][ CropReturned =>
          LET n == Len(views)
              v == views[n]
              c == views'[n + 1]
              a == cropArgs'[n]
          IN  /\ c.rows = a.rows /\ c.cols = a.cols /\ c.step = v.step
              /\ c.start = v.start + v.step * a.top + a.left
              /\ IsMatrix(c) = IsMatrix(v)
              /\ \A yy \in 0..(a.rows - 1), xx \in 0..(a.cols - 1) :
                    At(c, yy, xx) = At(v, a.top + yy, a.left + xx)
              /\ \A i \in 1..n : views'[i] = views[i]
              /\ mem' = mem ]_vars

\* Crops have returned on a padded MatrixWrapper and on a Matrix: one with
\* positive and one with negative top and left.
C8_Witness ==
    /\ Len(views) = 3
    /\ cropArgs[1].top > 0 /\ cropArgs[1].left > 0
    /\ cropArgs[1].rows > 0 /\ cropArgs[1].cols > 0
    /\ cropArgs[2].top < 0 /\ cropArgs[2].left < 0
    /\ views[1].step > views[1].cols

\* The second crop undoes the first, which stayed inside the view.
UnCropped ==
    /\ Len(views) = 3
    /\ cropArgs[1].top >= 0 /\ cropArgs[1].left >= 0
    /\ cropArgs[1].top + cropArgs[1].rows <= views[1].rows
    /\ cropArgs[1].left + cropArgs[1].cols <= views[1].cols
    /\ cropArgs[2] = [top |-> 0 - cropArgs[1].top, left |-> 0 - cropArgs[1].left,
                      rows |-> views[1].rows, cols |-> views[1].cols]

CloneIsCopy ==
    /\ IsMatrix(views[2])
    /\ views[2].rows = views[1].rows
    /\ views[2].cols = views[1].cols
    /\ \A yy \in 0..(views[1].rows - 1), xx \in 0..(views[1].cols - 1) :
        mem[At(views[2], yy, xx)] = mem[At(views[1], yy, xx)]
    /\ Cells(views[2]) \cap Cells(views[1]) = {}

\* C10: clone() of any view (a cropped one with step > cols included) returns
\* a Matrix of the same rows and cols whose cell (y,x) equals the source's for
\* every position, with storage disjoint from the source's: a later write
\* through the clone leaves every source cell unchanged, and a later write
\* through the source leaves every clone cell unchanged.
C10_CloneIndependent ==
    [][ /\ (pc = "clone_ready" /\ pc' = "cloned") => CloneIsCopy'
        /\ (pc = "cloned" /\ Len(writes') = Len(writes) + 1) =>
            LET w == writes'[Len(writes')]
                other == IF w.via = 1 THEN 2 ELSE 1
            IN  \A a \in Cells(views[other]) : mem'[a] = mem[a] ]_vars

\* A cropped view with step > cols was cloned, then an element was written
\* through the clone and another through the source.
C10_Witness ==
    /\ pc = "cloned"
    /\ views[1].step > views[1].cols
    /\ views[1].rows = 2 /\ views[1].cols = 2
    /\ Len(writes) = 2
    /\ writes[1].via = 2 /\ writes[2].via = 1

\* ------------------------------------------------ copies and lifetime
\* A step that is one more operation on the objects.
Did(names) == op'.n = op.n + 1 /\ op'.name \in names

\* C11: copy construction and assignment of a MatrixWrapper or Matrix are
\* shallow: after a = b, a(y,x) and b(y,x) are the same cell for every
\* position, so a write through either is visible through the other; the
\* metadata is independent: a crop, assignment, create or destruction of one
\* object changes the origin, rows, cols and step of no other object.
C11_ShallowCopy ==
    [][ /\ Did({"copy", "assign"}) =>
            LET a == views'[op'.target]
                b == views'[op'.source]
            IN  /\ a.rows = b.rows /\ a.cols = b.cols
                /\ \A yy \in 0..(b.rows - 1), xx \in 0..(b.cols - 1) :
                    At(a, yy, xx) = At(b, yy, xx)
                /\ mem' = mem
        /\ Did({"write"}) =>
            \A g \in {op.target, op.source} :
                mem'[At(views[g], op'.pos[1], op'.pos[2])] = NewValue
        /\ Did({"copy", "assign", "crop", "crop_assign", "new", "create", "destroy"}) =>
            \A g \in (1..Len(views)) \ {op'.target} : views'[g] = views[g] ]_vars

\* A padded view was copied, the copy cropped in place and assigned the
\* original again, and then a cell of the second row was written through it.
C11_Witness ==
    /\ pc = "written"
    /\ op.n = 4
    /\ op.target = 2
    /\ op.pos = <<1, 1>>
    /\ views[1].step > views[1].cols
    /\ mem[At(views[1], 1, 1)] = NewValue

\* The live objects that hold a share of the array at b.
Holders(b) == { h \in Live : Owner(views[h]) = b }

\* The addresses of the array at b.
BlockCells(b) == b..(b + blocks[b].size - 1)

\* C12: after any sequence of Matrix create, copy, assignment, crop and
\* destruction, an array allocated by create is released exactly once, and
\* only when the last object referring to it is destroyed or reassigned; a
\* Matrix obtained by crop keeps the array alive after the original is
\* destroyed, so no live Matrix addresses released storage.
C12_ReleasedWithLastHandle ==
    /\ \A b \in DOMAIN blocks :
        /\ blocks[b].deletes <= 1
        /\ blocks[b].deletes = 1 <=> Holders(b) = {}
        /\ blocks[b].use = Cardinality(Holders(b))
    /\ \A h \in Live : IsMatrix(views[h]) =>
        \A b \in DOMAIN blocks :
            blocks[b].deletes > 0 => Cells(views[h]) \cap BlockCells(b) = {}

\* The first Matrix has been destroyed while a crop of it lives on in its
\* array, and the array of another Matrix has been released.
C12_Witness ==
    /\ 1 \in dead
    /\ 1 \in DOMAIN blocks
    /\ blocks[1].deletes = 0
    /\ \E h \in Live : Owner(views[h]) = 1 /\ views[h].start > 1 /\ views[h].rows > 0
    /\ \E b \in DOMAIN blocks : blocks[b].deletes = 1

\* ------------------------------------------------------------- copy_to
\* The loop of copy_to and copy_to taken as a whole leave the same store.
CopyToAgrees == pc = "copied" => mem = CopyTo(views[1], views[2], CopyStore)

\* C13: src.copy_to(dst) with dst of the same rows and cols makes dst(y,x)
\* equal to src(y,x) for every position, also when the steps differ; exactly
\* cols elements per row are copied: the cells of dst's buffer outside dst's
\* rows x cols window and every cell of src are unchanged.
C13_CopyTo ==
    (pc = "copied" /\ CopyToAssert(views[1], views[2])) =>
        /\ \A yy \in 0..(views[1].rows - 1), xx \in 0..(views[1].cols - 1) :
            /\ mem[At(views[2], yy, xx)] = mem[At(views[1], yy, xx)]
            /\ mem[At(views[1], yy, xx)] = CopyStore[At(views[1], yy, xx)]
        /\ \A a \in DOMAIN mem \ Cells(views[2]) : mem[a] = CopyStore[a]

\* A 3 x 2 source with padded rows was copied to an unpadded destination.
C13_Witness ==
    /\ pc = "copied"
    /\ views[1].rows = 3 /\ views[1].cols = 2
    /\ views[1].step > views[1].cols
    /\ views[2].step = views[2].cols
    /\ mem[At(views[2], 2, 1)] = At(views[1], 2, 1)

\* ---------------------------------------------------- the shape check
\* All grids of the call have the same rows and the same cols.
AllSameShape ==
    \A j \in 1..NMats, k \in 1..NMats :
        mats[j].rows = mats[k].rows /\ mats[j].cols = mats[k].cols

\* C14 as stated: when for_each or for_each_pair is called with 2 to 4 grids
\* that do not all have identical rows and cols, the shape check fails before
\* the functor is invoked: there is no functor invocation.
C14_ShapeCheck == ~AllSameShape => calls = <<>>

\* C14 as amended: in a build with asserts (NDEBUG not defined), when for_each
\* or for_each_pair is called with 2 to 4 grids that do not all have identical
\* rows and cols, the call ends in the failed assert and the functor is never
\* invoked.
C14_ShapeCheckWithAsserts ==
    (~AllSameShape /\ ~ndebug) =>
        /\ calls = <<>>
        /\ pc \in {"pair_begin", "pair_abort", "each_begin", "each_abort"}

\* for_each_pair over four grids, the last of another shape, has stopped at
\* its assert.
C14_Witness ==
    /\ pc = "pair_abort"
    /\ NMats = 4
    /\ mats[4].rows # mats[1].rows
    /\ mats[1].rows >= 2 /\ mats[1].cols >= 2
    /\ ~ndebug
    /\ calls = <<>>

\* -------------------------------------------------------------- IdxMap
EachPcs == {"each_begin", "each_rows", "each_cols", "each_done"}

\* The grids of the call that are matrices.
RealGrids == { g \in 1..NMats : ~IsIdxMap(mats[g]) }

\* The (row, column) an Idx stands for.
IdxPos(idx) == <<idx.y, idx.x>>

\* C15: when an IdxMap of shape R x C is passed as a grid to for_each or
\* for_each_pair, the functor receives for position (y,x) the Idx with x = x
\* and y = y: for_each passes them in row-major order, for_each_pair in the
\* order of its three phases; the element of a real grid G of the call
\* passed alongside an Idx idx is always the cell G(idx.y, idx.x).
C15_IdxMap ==
    \A k \in 1..NMats : IsIdxMap(mats[k]) =>
        IF pc \in EachPcs
        THEN /\ \A i \in 1..Len(calls) :
                /\ calls[i][k] = [x |-> (i - 1) % Cols, y |-> (i - 1) \div Cols]
                /\ \A g \in RealGrids :
                    calls[i][g] = At(mats[g], calls[i][k].y, calls[i][k].x)
             /\ pc = "each_done" => Len(calls) = Rows * Cols
        ELSE /\ \A i \in 1..Len(calls) : \A e \in 1..2 : \A g \in RealGrids :
                calls[i][g][e] = At(mats[g], calls[i][k][e].y, calls[i][k][e].x)
             /\ (pc = "pair_done" /\ Rows >= 1 /\ Cols >= 1) =>
                [i \in 1..Len(calls) |->
                    << IdxPos(calls[i][k][1]), IdxPos(calls[i][k][2]) >>]
                = ExpectedPairOrder

\* for_each_pair has finished over a padded 3 x 3 matrix and an IdxMap: the
\* last call had the Idx of (2,1) and (2,2) and the matrix's cells there.
C15_Witness ==
    /\ pc = "pair_done"
    /\ NMats = 2
    /\ ~IsIdxMap(mats[1]) /\ IsIdxMap(mats[2])
    /\ mats[1].step > mats[1].cols
    /\ Rows = 3 /\ Cols = 3
    /\ Len(calls) = 12
    /\ calls[12][2] = << [x |-> 1, y |-> 2], [x |-> 2, y |-> 2] >>

\* ----------------------------------------------------------- laplacian
\* The sum of the elements of store at the addresses S.
RECURSIVE SumOver(_, _)
SumOver(store, S) ==
    IF S = {} THEN 0
    ELSE LET a == CHOOSE b \in S : TRUE
         IN  store[a] + SumOver(store, S \ {a})

\* C16: for_each_pair over an input grid and a zero-initialised output grid
\* with the functor l1 += b1-b2; l2 += b2-b1 keeps the sum of all output
\* cells equal to 0 after every functor invocation and at the end of the
\* traversal, for every grid shape and every input content.
C16_LaplacianSumsToZero == SumOver(mem, Cells(mats[2])) = 0

\* The traversal of a padded 2 x 2 image with three different pixels has
\* ended with a laplacian that is not all zero.
C16_Witness ==
    /\ pc = "pair_done"
    /\ Rows = 2 /\ Cols = 2
    /\ mats[2].step > Cols
    /\ Len(calls) = 4
    /\ mem[At(mats[1], 0, 0)] = 255 /\ mem[At(mats[1], 0, 1)] = 1
    /\ mem[At(mats[1], 1, 0)] = 0
    /\ mem[At(mats[2], 0, 0)] = 254 + 255
    /\ \E a \in Cells(mats[2]) : mem[a] < 0

\* ------------------------------------------------ filter with functors
\* Every cell of the image holds c.
Constant(mat, c) == \A a \in Cells(mat) : mem[a] = c

\* C17: filtering a constant-valued image (every input cell = c) with any
\* kernel of positive weights, accm adding value*weight and weight to captured
\* sums and eval writing sum/weight-sum and resetting both sums, leaves every
\* output cell equal to c, the cells of the four boundary bands included.
C17_ConstantImage ==
    pc = "filter_done" /\ func = "average" =>
        \A c \in Pixels : Constant(input, c) => Constant(output, c)

\* The same for square kernels only: there it holds.
ConstantImageSquare ==
    kernel.rows = kernel.cols => C17_ConstantImage

\* A 1 x 3 kernel on a constant image: the first and the last column of the
\* output keep what they held before the call.
C17_Unwritten ==
    /\ pc = "filter_done" /\ func = "average"
    /\ kernel.rows = 1 /\ kernel.cols = 3
    /\ Constant(input, 255)
    /\ \A yy \in 0..(output.rows - 1) :
        /\ mem[At(output, yy, 0)] = 0
        /\ mem[At(output, yy, output.cols - 1)] = 0
        /\ \A xx \in 1..(output.cols - 2) : mem[At(output, yy, xx)] = 255

Empty(band) == band.y0 >= band.y1 \/ band.x0 >= band.x1

\* filter ran with a 1 x 1 kernel of weight 1 and the summing functors.
IdentityRun ==
    /\ func = "weighted_sum"
    /\ kernel.rows = 1 /\ kernel.cols = 1
    /\ mem[At(kernel, 0, 0)] = 1

\* C18: filter with a 1x1 kernel of weight 1 (accm adding value*weight, eval
\* writing the accumulated value and resetting it) makes output(y,x) equal to
\* input(y,x) at every position: all four border bands are empty, and accm is
\* invoked exactly once per position with that position's own input cell.
C18_IdentityKernel ==
    pc = "filter_done" /\ IdentityRun =>
        /\ \A pos \in OutputPositions :
            /\ mem[At(output, pos[1], pos[2])] = mem[At(input, pos[1], pos[2])]
            /\ AccmPairs(pos) = << <<pos, <<0, 0>> >> >>
        /\ Empty(TopBand) /\ Empty(BottomBand) /\ Empty(LeftBand) /\ Empty(RightBand)

\* A 4 x 5 image of pairwise different pixels went through the 1 x 1 kernel.
C18_Witness ==
    /\ pc = "filter_done" /\ IdentityRun
    /\ input.rows = 4 /\ input.cols = 5
    /\ Cardinality({ mem[a] : a \in Cells(input) }) = 20
    /\ Len(events) = 60

\* ------------------------------------------------------ gaussian_kernel
Abs(n) == IF n < 0 THEN 0 - n ELSE n

\* The assignments made to cell (yy, xx) of the kernel.
AssignedAt(yy, xx) ==
    { i \in 1..Len(events) :
        events[i].f = "assign" /\ events[i].at = At(kernel, yy, xx) }

\* C19: for every odd rows and odd cols (square or not), the kernel returned by
\* gaussian_kernel(rows, cols, sigma) has every one of its rows*cols cells
\* assigned, and the value at cell (y,x) is the weight of the offset
\* (dx,dy) = (|x - cols/2|, |y - rows/2|) from the centre cell (rows/2, cols/2),
\* so the four cells at mirrored offsets (+-dx, +-dy) hold the same weight.
C19_GaussianKernel ==
    pc = "gaussian_done" /\ args.rows % 2 = 1 /\ args.cols % 2 = 1 =>
        \A yy \in 0..(kernel.rows - 1), xx \in 0..(kernel.cols - 1) :
            /\ AssignedAt(yy, xx) # {}
            /\ mem[At(kernel, yy, xx)] =
                Gaussian(Abs(xx - args.cols \div 2), Abs(yy - args.rows \div 2),
                         args.sigma)

\* The same for square kernels only: there it holds.
GaussianKernelSquare ==
    args.rows = args.cols => C19_GaussianKernel

\* gaussian_kernel(1, 3, sigma) returned: cell (0,2) was never assigned, cell
\* (0,0) holds the centre's weight, and the element before the array was
\* assigned.
C19_Unassigned ==
    /\ pc = "gaussian_done" /\ args.rows = 1 /\ args.cols = 3
    /\ AssignedAt(0, 2) = {}
    /\ mem[At(kernel, 0, 0)] = Gaussian(0, 0, args.sigma)
    /\ AssignedAt(0, 0 - 1) # {}

\* ------------------------------------------------- MatrixWrapper::set
\* The elements the functor of for_each_pair was passed.
PairPassed == { calls[i][1][j] : i \in 1..Len(calls), j \in 1..2 }

\* The elements the functor of for_each was passed.
EachPassed == { calls[i][1] : i \in 1..Len(calls) }

\* C20: set(v) on a view of any shape rows x cols assigns v to every cell (y,x)
\* with 0 <= y < rows and 0 <= x < cols, for every rows and cols (not only
\* rows = cols), so that afterwards every element passed to a for_each or
\* for_each_pair functor over that view equals v.
C20_Set ==
    /\ pc \in {"each_begin", "pair_begin", "each_done", "pair_done"} =>
        \A a \in Cells(mats[1]) : mem[a] = args.init_val
    /\ pc = "each_done" => \A a \in EachPassed : mem[a] = args.init_val
    /\ pc = "pair_done" => \A a \in PairPassed : mem[a] = args.init_val

\* The cells alone, for views with no more columns than rows: there it holds.
SetTall ==
    mats[1].cols <= mats[1].rows /\ pc \in {"each_begin", "pair_begin"} =>
        \A a \in Cells(mats[1]) : mem[a] = args.init_val

\* set(-1) on a 2 x 3 view returned, and for_each passed its functor the cell
\* (0,2), which holds what it held before the call.
C20_Unset ==
    /\ pc = "each_done"
    /\ mats[1].rows = 2 /\ mats[1].cols = 3 /\ mats[1].step = 3
    /\ args.init_val = 0 - 1
    /\ At(mats[1], 0, 2) \in EachPassed
    /\ mem[At(mats[1], 0, 2)] = 3
    /\ mem[At(mats[1], 1, 2)] = 6
    /\ \A yy \in 0..1, xx \in 0..1 : mem[At(mats[1], yy, xx)] = 0 - 1

\* --------------------------------------- gaussian_kernel's assignments
\* C23: gaussian_kernel(rows, cols, sigma) writes only cells (y,x) with
\* 0 <= y < rows and 0 <= x < cols of the rows x cols kernel it allocates, for
\* every odd rows and odd cols including rows != cols.
C23_GaussianInside ==
    args.rows % 2 = 1 /\ args.cols % 2 = 1 =>
        \A i \in 1..Len(events) :
            /\ events[i].pos[1] \in 0..(args.rows - 1)
            /\ events[i].pos[2] \in 0..(args.cols - 1)
            /\ InBlock(events[i].at)

\* The same for square kernels only: there it holds.
GaussianInsideSquare ==
    args.rows = args.cols => C23_GaussianInside

\* ------------------------------------ the elements for_each_pair is given
\* C24: for every grid shape with R >= 1 and C >= 1 (including 1x1, 1xC and
\* Rx1) and every step >= cols, every element that for_each_pair dereferences
\* and passes to the functor lies at a position (y,x) with 0 <= y < R and
\* 0 <= x < C; pointers formed for row 1 or column 1 of a grid that has no such
\* row or column are never dereferenced.
C24_PairInside ==
    (Rows >= 1 /\ Cols >= 1) =>
        \A i \in 1..Len(calls) : \A k \in 1..NMats : \A j \in 1..2 :
            calls[i][k][j] \in Cells(mats[k])

\* A padded 1 x 3 grid was traversed: down was formed for row 1, which the
\* grid has not, and the two calls made were given cells of row 0.
C24_Witness ==
    /\ pc = "pair_done"
    /\ Rows = 1 /\ Cols = 3
    /\ mats[1].step > Cols
    /\ ptr.down[1] = RowPtr(mats[1], 1)
    /\ ~(ptr.down[1] \in Cells(mats[1]))
    /\ Len(calls) = 2

\* ------------------------------------------------ what filter touches
\* The grid a crop call of filter was made on.
CroppedGrid(e) == IF e.of = "input" THEN input ELSE kernel

\* C22: for every input, output and kernel that satisfy the three conditions
\* asserted at filter's entry, non-square kernels included, every crop call
\* made by filter satisfies crop's own asserted bound (top+rows <= rows,
\* left+cols <= cols, with top, left >= 0) and every input, kernel and output
\* cell that filter reads or passes to eval lies inside that grid's rows x cols
\* window.
C22_FilterInside ==
    \A i \in 1..Len(events) :
        LET e == events[i]
        IN  CASE e.f = "crop" ->
                    /\ e.top >= 0 /\ e.left >= 0
                    /\ e.top + e.rows <= CroppedGrid(e).rows
                    /\ e.left + e.cols <= CroppedGrid(e).cols
              [] e.f = "accm" ->
                    e.in \in Cells(input) /\ e.k \in Cells(kernel)
              [] e.f = "eval" ->
                    e.pos \in OutputPositions /\ e.out \in Cells(output)

\* The same for kernels that have no more rows than columns: there it holds.
FilterInsideWide ==
    kernel.rows <= kernel.cols => C22_FilterInside

\* An 11 x 1 kernel on a 24 x 4 image: the left band reached column 4, which
\* the image has not, and eval was given output(5, 4).
C22_Outside ==
    /\ kernel.rows = 11 /\ kernel.cols = 1
    /\ input.rows = 24 /\ input.cols = 4
    /\ \E i \in 1..Len(events) :
        /\ events[i].f = "eval"
        /\ events[i].pos = <<5, 4>>
        /\ events[i].out = RowPtr(output, 5) + 4

\* ------------------------------------------- for_each_pair on empty grids
\* C25: for_each_pair on an empty grid (rows = 0 or cols = 0, the other
\* dimension arbitrary) invokes the functor zero times and dereferences no
\* element.
C25_EmptyGrid ==
    (Rows = 0 \/ Cols = 0) => calls = <<>>

\* The same for grids with at most one row and at most one column: there it holds.
EmptyGridSmall ==
    (Rows <= 1 /\ Cols <= 1) => C25_EmptyGrid

\* A 2 x 0 grid: the first-column loop invoked the functor once, on the
\* elements mat[0] and mat[1] point to.
C25_Invoked ==
    /\ pc = "pair_done"
    /\ Rows = 2 /\ Cols = 0
    /\ calls = << PairCall(RowPtrs(0), RowPtrs(1)) >>

\* ------------------------------------------------------ chains of crops
\* The crop that made views[i + 1] stays inside views[i].
StaysInside(i) ==
    /\ cropArgs[i].top >= 0 /\ cropArgs[i].left >= 0
    /\ cropArgs[i].top + cropArgs[i].rows <= views[i].rows
    /\ cropArgs[i].left + cropArgs[i].cols <= views[i].cols

\* C26: after any chain of crop calls starting from a view over a buffer of
\* rows0 x cols0 with step0 >= cols0, where each call has top >= 0, left >= 0,
\* top+rows <= this.rows and left+cols <= this.cols, the resulting view keeps
\* step = step0 and every cell (y,x) of it is a cell inside the original
\* rows0 x cols0 window; distinct positions of the view address distinct cells.
C26_CropChain ==
    \A n \in 2..Len(views) :
        (\A i \in 1..(n - 1) : StaysInside(i)) =>
            /\ views[n].step = views[1].step
            /\ Cells(views[n]) \subseteq Cells(views[1])
            /\ Cardinality(Cells(views[n])) = views[n].rows * views[n].cols

\* Two crops, each with a positive top and left, of a padded 3 x 3 view.
C26_Witness ==
    /\ Len(views) = 3
    /\ StaysInside(1) /\ StaysInside(2)
    /\ views[1].rows = 3 /\ views[1].cols = 3 /\ views[1].step > 3
    /\ cropArgs[1].top = 1 /\ cropArgs[1].left = 1
    /\ cropArgs[2].top = 1 /\ cropArgs[2].left = 1
    /\ views[3].rows = 1 /\ views[3].cols = 1
    /\ Cells(views[3]) = { At(views[1], 2, 2) }

\* The crop call i is the documented un-crop of the crop before it.
IsUnCrop(i) ==
    /\ i >= 2
    /\ StaysInside(i - 1)
    /\ cropArgs[i].top = 0 - cropArgs[i - 1].top
    /\ cropArgs[i].left = 0 - cropArgs[i - 1].left
    /\ cropArgs[i].rows = views[i - 1].rows
    /\ cropArgs[i].cols = views[i - 1].cols

\* C27: for every view and every first crop crop(a,b,r,c) with a, b >= 0,
\* a+r <= view.rows and b+c <= view.cols, the un-crop call
\* crop(-a,-b,view.rows,view.cols) made on the cropped view satisfies the
\* condition that crop asserts (evaluated against the cropped view's rows r and
\* cols c), so the documented un-crop never trips crop's assertion.
C27_UnCropAsserts ==
    \A i \in 1..Len(cropArgs) :
        IsUnCrop(i) =>
            CropAssert(views[i], cropArgs[i].top, cropArgs[i].left,
                       cropArgs[i].rows, cropArgs[i].cols)

\* The same for first crops that end at the view's last row and last column:
\* there it holds.
UnCropAssertsAtEnd ==
    \A i \in 1..Len(cropArgs) :
        (/\ IsUnCrop(i)
         /\ cropArgs[i - 1].top + cropArgs[i - 1].rows = views[i - 1].rows
         /\ cropArgs[i - 1].left + cropArgs[i - 1].cols = views[i - 1].cols) =>
            CropAssert(views[i], cropArgs[i].top, cropArgs[i].left,
                       cropArgs[i].rows, cropArgs[i].cols)

\* crop(0, 0, 1, 1) on a 2 x 2 view, then crop(0, 0, 2, 2) on the result: the
\* assert fails and the program aborts.
C27_Aborted ==
    /\ pc = "crop_abort"
    /\ ~ndebug
    /\ views[1].rows = 2 /\ views[1].cols = 2
    /\ cropArgs = << [top |-> 0, left |-> 0, rows |-> 1, cols |-> 1],
                     [top |-> 0, left |-> 0, rows |-> 2, cols |-> 2] >>

\* ------------------------------------------------ the laplacian's cells
\* The 4-neighbours of p that the grid has.
Neighbours(p) ==
    { n \in { <<p[1] - 1, p[2]>>, <<p[1] + 1, p[2]>>,
              <<p[1], p[2] - 1>>, <<p[1], p[2] + 1>> } : InGrid(n) }

\* The invocations that were given the output cell at p.
Contributions(p) ==
    { i \in 1..Len(calls) :
        \E j \in 1..2 : calls[i][2][j] = At(mats[2], p[1], p[2]) }

\* C28: after for_each_pair over an image grid and a zero-initialised output
\* grid with the functor l1 += b1-b2; l2 += b2-b1, every output cell (y,x)
\* equals the sum, over the existing 4-neighbours n of (y,x), of
\* image(y,x) - image(n): each cell receives exactly one contribution per
\* neighbour (2 at corners, 3 on edges, 4 in the interior).
C28_Laplacian ==
    pc = "pair_done" =>
        \A p \in (0..(Rows - 1)) \X (0..(Cols - 1)) :
            /\ mem[At(mats[2], p[1], p[2])] =
                Cardinality(Neighbours(p)) * mem[At(mats[1], p[1], p[2])]
                - SumOver(mem, { At(mats[1], n[1], n[2]) : n \in Neighbours(p) })
            /\ Cardinality(Contributions(p)) = Cardinality(Neighbours(p))

\* A 3 x 3 image, black but for its white centre: the centre of the laplacian
\* got four contributions, an edge three and a corner two.
C28_Witness ==
    /\ pc = "pair_done"
    /\ Rows = 3 /\ Cols = 3
    /\ mem[At(mats[1], 1, 1)] = 255
    /\ mem[At(mats[2], 1, 1)] = 4 * 255
    /\ mem[At(mats[2], 0, 1)] = 0 - 255
    /\ mem[At(mats[2], 0, 0)] = 0
    /\ Cardinality(Contributions(<<1, 1>>)) = 4
    /\ Cardinality(Contributions(<<0, 1>>)) = 3
    /\ Cardinality(Contributions(<<0, 0>>)) = 2

\* ---------------------------------------------------------- SegmentTree
\* accumulation = identity; for (i = start; i < end; ++i) accumulation =
\* accumulation op s[i]: the operands in the order of the sequence.
RECURSIVE FoldLeft(_, _, _, _, _)
FoldLeft(kind, accumulation, s, i, end) ==
    IF i >= end THEN accumulation
    ELSE FoldLeft(kind,
                  IF kind = "plus" THEN accumulation + s[i + 1]
                                   ELSE accumulation \o s[i + 1],
                  s, i + 1, end)

\* C21: for a SegmentTree built over a sequence s of length N with an
\* associative operation op and identity e, query(start, end) returns, for all
\* 0 <= start <= N and 0 <= end <= N, the left-to-right fold of op over
\* s[start], ..., s[end-1] with operands kept in sequence order (so the result
\* is correct for a non-commutative op such as string concatenation), and
\* returns e whenever end <= start.
C21_SegmentQuery ==
    pc = "segment_queried" =>
        \A i \in 1..Len(hist) :
            /\ hist[i].ret = FoldLeft(args.operation, args.identity, args.values,
                                      hist[i].start, hist[i].end)
            /\ hist[i].end <= hist[i].start => hist[i].ret = args.identity

\* The string "abb": query(1, 3) on its tree, which has four leaves, returned
\* "bb" with a and b in the order of the string.
C21_Witness ==
    /\ pc = "segment_queried"
    /\ args.operation = "concat"
    /\ args.values = << <<"b">>, <<"a">>, <<"b">> >>
    /\ Cardinality(DOMAIN obj.m_tree) = 7
    /\ hist = << [name |-> "query", start |-> 0, end |-> 2, ret |-> <<"b", "a">>] >>

\* ---------------------------------------------------------------- UFSet
\* The sets the Merge calls of h make of the ids: every id labelled by one id
\* of its set.
RECURSIVE Labels(_, _, _)
Labels(h, i, label) ==
    IF i > Len(h) THEN label
    ELSE IF h[i].name # "Merge" THEN Labels(h, i + 1, label)
    ELSE Labels(h, i + 1,
                [e \in DOMAIN label |->
                    IF label[e] = label[h[i].id2] THEN label[h[i].id1] ELSE label[e]])

Connected(i, j) ==
    LET label == Labels(hist, 1, [e \in DOMAIN obj.m_parent |-> e])
    IN  label[i] = label[j]

DisjointSets ==
    LET label == Labels(hist, 1, [e \in DOMAIN obj.m_parent |-> e])
    IN  Cardinality({ label[e] : e \in DOMAIN obj.m_parent })

Reduced ==
    /\ \A i \in DOMAIN obj.m_parent, j \in DOMAIN obj.m_parent :
        QueryId(obj, i) = QueryId(obj, j) <=> Connected(i, j)
    /\ { QueryId(obj, i) : i \in DOMAIN obj.m_parent } = 0..(DisjointSets - 1)
    /\ hist[Len(hist)].ret = DisjointSets

EndsWithReduce ==
    /\ pc = "ufset"
    /\ Len(hist) > 0
    /\ hist[Len(hist)].name = "Reduce"

\* C29: after any sequence of Merge and Reduce calls on a UFSet of n elements
\* (ids in 0..n-1) that ends with a Reduce, Query(i) == Query(j) holds iff i
\* and j are connected by the Merge calls made so far (reflexive, symmetric,
\* transitive closure), the set of Query values is exactly 0..k-1, and that
\* last Reduce returned k, the number of disjoint sets.
C29_MergeReduce == EndsWithReduce => Reduced

\* What does hold: the same when the Reduce at the end is the only one.
ReducedOnce ==
    (EndsWithReduce /\ \A i \in 1..(Len(hist) - 1) : hist[i].name = "Merge")
        => Reduced

\* UFSet(3); Merge(0, 1); Reduce(); Reduce(): the first Reduce left
\* m_parent = (0, 0, 1), the rids, and the second one follows them as parents:
\* it returns 1 and Query(2) == Query(0), and 2 was never merged.
C29_Joined ==
    /\ EndsWithReduce
    /\ args.size = 3
    /\ Len(hist) = 3
    /\ hist[1] = [name |-> "Merge", id1 |-> 0, id2 |-> 1, ret |-> TRUE]
    /\ hist[2] = [name |-> "Reduce", id1 |-> 0, id2 |-> 0, ret |-> 2]
    /\ hist[3] = [name |-> "Reduce", id1 |-> 0, id2 |-> 0, ret |-> 1]
    /\ QueryId(obj, 2) = QueryId(obj, 0)
    /\ ~Connected(2, 0)

\* ---------------------------------------------------- BinaryIndexedTree
\* The current value at every key after the calls of h: 0 at first, Add(k, v)
\* increases the one at k by v and Set(k, v) makes it v.
RECURSIVE Current(_, _, _)
Current(h, i, value) ==
    IF i > Len(h) THEN value
    ELSE Current(h, i + 1,
                 [value EXCEPT ![h[i].key] =
                     IF h[i].name = "Add" THEN @ + h[i].val ELSE h[i].val])

RECURSIVE SumTo(_, _)
SumTo(value, k) == IF k < 1 THEN 0 ELSE value[k] + SumTo(value, k - 1)

\* C30: for a BinaryIndexedTree of a given size, after any sequence of
\* Add(k, v) and Set(k, v) calls with keys 0 < k < size, Accumulate(k) equals
\* the sum of the current values at keys 1..k and Get(k) equals the current
\* value at key k, where the current value at a key starts at 0, Add(k, v)
\* increases it by v and Set(k, v) makes it v.
C30_BinaryIndexedTree ==
    pc = "tree" =>
        LET value == Current(hist, 1, [k \in 1..(args.size - 1) |-> 0])
        IN  \A k \in 1..(args.size - 1) :
                /\ Accumulate(obj, k) = SumTo(value, k)
                /\ Get(obj, k) = value[k]

\* A tree of size 5 after Add(2, 2), Set(2, -1) and Add(3, 2): the value at 2
\* is -1, Accumulate(3) is 1 and Accumulate(4), read from m_tree[4] alone, too.
C30_Witness ==
    /\ pc = "tree"
    /\ args.size = 5
    /\ hist = << [name |-> "Add", key |-> 2, val |-> 2],
                 [name |-> "Set", key |-> 2, val |-> 0 - 1],
                 [name |-> "Add", key |-> 3, val |-> 2] >>
    /\ Get(obj, 2) = 0 - 1
    /\ Accumulate(obj, 3) = 1
    /\ obj.m_tree[4] = 1

====
